---- MODULE Spec2Model ----
(***************************************************************************)
(* Verification model of llm-relay's conversion subsystem.                 *)
(*                                                                         *)
(* JSON values are tagged records: k names the JSON kind.                  *)
(*   [k |-> "absent"]                the key is not present                *)
(*   [k |-> "null"]                  a value that is neither string nor    *)
(*                                   array nor object (null, number, ...)  *)
(*   [k |-> "str", s |-> text]       a JSON string                         *)
(*   [k |-> "arr", a |-> <<...>>]    a JSON array                          *)
(*   [k |-> "obj", text |-> t, cc |-> c]  a JSON object; text stands for   *)
(*                                   its payload keys; cc is "none" when   *)
(*                                   it has no cache_control key, "given"  *)
(*                                   for a caller-supplied value (of any   *)
(*                                   content, e.g. with a ttl), and        *)
(*                                   "ephemeral" for {"type":"ephemeral"}  *)
(*                                   as the planner writes it              *)
(***************************************************************************)
EXTENDS Integers, Sequences, FiniteSets, TLC

VARIABLES
    orig,       \* cache planner: the request body the caller built
    prev,       \* cache planner: argument of the latest ensure_cache_control call
    body,       \* cache planner: the body as it is now (result of the latest call)
    calls,      \* cache planner: number of ensure_cache_control calls made
    call,       \* thinking resolver: the function called and its arguments
    ret,        \* thinking resolver: the value returned, Pending before the call
    clock,      \* the system clock, as SystemTime::now().duration_since(UNIX_EPOCH)
    again,      \* the value a second call with the same arguments returned
    pc,         \* LlmClient::chat: where the call stands
    requests,   \* LlmClient::chat: number of HTTP requests sent by the call
    http        \* LlmClient::chat: the HTTP response the call received

\* what only the repeated calls and the client use
others == <<clock, again, pc, requests, http>>

vars == <<orig, prev, body, calls, call, ret, clock, again, pc, requests, http>>

----------------------------------------------------------------------------
(* Bounds of the cache planner's input space *)

MaxTools == 1
MaxSystem == 1
MaxMsgs == 2
MaxBlocks == 2

(* Bound of the thinking resolver's input space: the numeric efforts        *)
(* 0..MaxPlainEffort are tried besides the values around the bucket limits  *)

MaxPlainEffort == 3

----------------------------------------------------------------------------
(* convert/cache_control.rs *)

MAX_CACHE_CONTROL_BLOCKS == 4

Absent == [k |-> "absent"]
Null == [k |-> "null"]
Ephemeral == "ephemeral"

\* item.get("cache_control").is_some(): only an object can have the key
HasCacheControl(item) == item.k = "obj" /\ item.cc # "none"

CountAnnotated(arr) == Cardinality({i \in 1..Len(arr) : HasCacheControl(arr[i])})

RECURSIVE CountMessages(_)
CountMessages(msgs) ==
    IF msgs = <<>> THEN 0
    ELSE (IF Head(msgs).content.k = "arr"
          THEN CountAnnotated(Head(msgs).content.a) ELSE 0)
         + CountMessages(Tail(msgs))

count_cache_control_blocks(b) ==
      (IF b.system.k = "arr" THEN CountAnnotated(b.system.a) ELSE 0)
    + (IF b.tools.k = "arr" THEN CountAnnotated(b.tools.a) ELSE 0)
    + (IF b.messages.k = "arr" THEN CountMessages(b.messages.a) ELSE 0)

\* json!({"type":"text","text":text,"cache_control":{"type":"ephemeral"}})
TextBlock(text) == [k |-> "obj", text |-> text, cc |-> Ephemeral]

\* last_mut() + as_object_mut() + insert("cache_control", ephemeral)
AnnotateLast(arr) ==
    LET n == Len(arr) IN
    IF n > 0 /\ arr[n].k = "obj"
    THEN [arr EXCEPT ![n].cc = Ephemeral]
    ELSE arr

\* inject_tools_cache_control without the `any(cache_control)` early return
inject_tools_cache_control_nocheck(b) ==
    IF b.tools.k # "arr" THEN b
    ELSE IF Len(b.tools.a) = 0 THEN b
    ELSE [b EXCEPT !.tools.a = AnnotateLast(@)]

inject_tools_cache_control(b) ==
    IF b.tools.k # "arr" THEN b
    ELSE IF Len(b.tools.a) = 0 THEN b
    ELSE IF \E i \in 1..Len(b.tools.a) : HasCacheControl(b.tools.a[i]) THEN b
    ELSE [b EXCEPT !.tools.a = AnnotateLast(@)]

inject_system_cache_control(b) ==
    IF b.system.k = "absent" THEN b
    ELSE IF b.system.k = "arr" /\ Len(b.system.a) > 0 THEN
        IF \E i \in 1..Len(b.system.a) : HasCacheControl(b.system.a[i]) THEN b
        ELSE [b EXCEPT !.system.a = AnnotateLast(@)]
    ELSE IF b.system.k = "str" THEN
        [b EXCEPT !.system = [k |-> "arr", a |-> <<TextBlock(b.system.s)>>]]
    ELSE b

\* indices of the messages whose role is "user"
UserIndices(msgs) == {i \in 1..Len(msgs) : msgs[i].role = "user"}

\* inject_messages_cache_control picking the last user message
\* (user_indices[len - 1]) instead of the second-to-last
inject_messages_cache_control_lastuser(b) ==
    IF b.messages.k # "arr" THEN b
    ELSE
    LET messages == b.messages.a
        has_cache == \E i \in 1..Len(messages) :
                        /\ messages[i].content.k = "arr"
                        /\ \E j \in 1..Len(messages[i].content.a) :
                              HasCacheControl(messages[i].content.a[j])
        user_indices == UserIndices(messages)
    IN
    IF has_cache THEN b
    ELSE IF Cardinality(user_indices) < 2 THEN b
    ELSE
    LET target_idx == CHOOSE i \in user_indices : \A j \in user_indices : j <= i
        content == messages[target_idx].content
    IN
    IF content.k = "arr" /\ Len(content.a) > 0 THEN
        [b EXCEPT !.messages.a[target_idx].content.a = AnnotateLast(@)]
    ELSE IF content.k = "str" THEN
        [b EXCEPT !.messages.a[target_idx].content =
                     [k |-> "arr", a |-> <<TextBlock(content.s)>>]]
    ELSE b

inject_messages_cache_control(b) ==
    IF b.messages.k # "arr" THEN b
    ELSE
    LET messages == b.messages.a
        has_cache == \E i \in 1..Len(messages) :
                        /\ messages[i].content.k = "arr"
                        /\ \E j \in 1..Len(messages[i].content.a) :
                              HasCacheControl(messages[i].content.a[j])
        user_indices == UserIndices(messages)
    IN
    IF has_cache THEN b
    ELSE IF Cardinality(user_indices) < 2 THEN b
    ELSE
    LET target_idx == CHOOSE i \in user_indices :
                         Cardinality({j \in user_indices : j > i}) = 1
        content == messages[target_idx].content
    IN
    IF content.k = "arr" /\ Len(content.a) > 0 THEN
        [b EXCEPT !.messages.a[target_idx].content.a = AnnotateLast(@)]
    ELSE IF content.k = "str" THEN
        [b EXCEPT !.messages.a[target_idx].content =
                     [k |-> "arr", a |-> <<TextBlock(content.s)>>]]
    ELSE b

\* ensure_cache_control without the `remaining -= after - before` bookkeeping
ensure_cache_control_nodecrement(b) ==
    LET existing == count_cache_control_blocks(b) IN
    IF existing >= MAX_CACHE_CONTROL_BLOCKS THEN b
    ELSE inject_messages_cache_control(
             inject_system_cache_control(inject_tools_cache_control(b)))

\* ensure_cache_control returning after the first zone that took an annotation
ensure_cache_control_onezone(b) ==
    LET existing == count_cache_control_blocks(b) IN
    IF existing >= MAX_CACHE_CONTROL_BLOCKS THEN b
    ELSE IF inject_tools_cache_control(b) # b THEN inject_tools_cache_control(b)
    ELSE IF inject_system_cache_control(b) # b THEN inject_system_cache_control(b)
    ELSE inject_messages_cache_control(b)

\* ensure_cache_control that never counts the annotations already present
ensure_cache_control_nobudget(b) ==
    inject_messages_cache_control(
        inject_system_cache_control(inject_tools_cache_control(b)))

ensure_cache_control(b) ==
    LET existing == count_cache_control_blocks(b) IN
    IF existing >= MAX_CACHE_CONTROL_BLOCKS THEN b
    ELSE
    LET r0 == MAX_CACHE_CONTROL_BLOCKS - existing
        b1 == IF r0 > 0 THEN inject_tools_cache_control(b) ELSE b
        r1 == IF r0 > 0
              THEN r0 - (count_cache_control_blocks(b1) - count_cache_control_blocks(b))
              ELSE r0
        b2 == IF r1 > 0 THEN inject_system_cache_control(b1) ELSE b1
        r2 == IF r1 > 0
              THEN r1 - (count_cache_control_blocks(b2) - count_cache_control_blocks(b1))
              ELSE r1
    IN IF r2 > 0 THEN inject_messages_cache_control(b2) ELSE b2

----------------------------------------------------------------------------
(* Text: a string is the sequence of its characters *)

UpperChars == <<"A", "B", "C", "D", "E", "F", "G", "H", "I", "J", "K", "L", "M", "N", "O", "P", "Q", "R", "S", "T", "U", "V", "W", "X", "Y", "Z">>
LowerChars == <<"a", "b", "c", "d", "e", "f", "g", "h", "i", "j", "k", "l", "m", "n", "o", "p", "q", "r", "s", "t", "u", "v", "w", "x", "y", "z">>
DigitChars == <<"0", "1", "2", "3", "4", "5", "6", "7", "8", "9">>

\* char::to_lowercase on the characters used here
LowerChar(c) ==
    IF \E i \in 1..26 : UpperChars[i] = c
    THEN LowerChars[CHOOSE i \in 1..26 : UpperChars[i] = c]
    ELSE c

\* str::to_lowercase
to_lowercase(s) == [i \in 1..Len(s) |-> LowerChar(s[i])]

IsDigit(c) == \E d \in 0..9 : DigitChars[d + 1] = c

DigitValue(c) == CHOOSE d \in 0..9 : DigitChars[d + 1] = c

\* str::contains
contains(s, pat) ==
    \E i \in 1..(Len(s) - Len(pat) + 1) : SubSeq(s, i, i + Len(pat) - 1) = pat

\* str::starts_with
starts_with(s, pat) == Len(s) >= Len(pat) /\ SubSeq(s, 1, Len(pat)) = pat

\* str::ends_with
ends_with(s, pat) ==
    Len(s) >= Len(pat) /\ SubSeq(s, Len(s) - Len(pat) + 1, Len(s)) = pat

\* str::rfind(char): the last position of c, 0 for None
rfind(s, c) ==
    IF \E i \in 1..Len(s) : s[i] = c
    THEN CHOOSE i \in 1..Len(s) : s[i] = c /\ \A j \in (i + 1)..Len(s) : s[j] # c
    ELSE 0

(* A u32 is kept as two 16-bit halves, hi * 65536 + lo, so that the whole   *)
(* range up to 4294967295 and the overflow just above it are exact.         *)

Err == [ok |-> FALSE]
Ok(hi, lo) == [ok |-> TRUE, hi |-> hi, lo |-> lo]

\* the accumulation loop of u32::from_str: checked multiply by 10, checked add
RECURSIVE ParseDigits(_, _, _)
ParseDigits(s, hi, lo) ==
    IF s = <<>> THEN Ok(hi, lo)
    ELSE IF ~IsDigit(Head(s)) THEN Err
    ELSE LET x == lo * 10 + DigitValue(Head(s))
             newHi == hi * 10 + (x \div 65536)
         IN IF newHi > 65535 THEN Err
            ELSE ParseDigits(Tail(s), newHi, x % 65536)

\* str::parse::<u32>(): an optional leading '+', then one or more decimal
\* digits, the value at most u32::MAX
parse_u32(s) ==
    IF s = <<>> THEN Err
    ELSE LET digits == IF Head(s) = "+" THEN Tail(s) ELSE s
         IN IF digits = <<>> THEN Err ELSE ParseDigits(digits, 0, 0)

----------------------------------------------------------------------------
(* convert/thinking.rs *)

S_none == <<"n", "o", "n", "e">>
S_off == <<"o", "f", "f">>
S_disabled == <<"d", "i", "s", "a", "b", "l", "e", "d">>
S_low == <<"l", "o", "w">>
S_minimal == <<"m", "i", "n", "i", "m", "a", "l">>
S_medium == <<"m", "e", "d", "i", "u", "m">>
S_med == <<"m", "e", "d">>
S_high == <<"h", "i", "g", "h">>
S_xhigh == <<"x", "h", "i", "g", "h">>
S_max == <<"m", "a", "x">>
S_auto == <<"a", "u", "t", "o">>
S_opus_4_6 == <<"o", "p", "u", "s", "-", "4", "-", "6">>
S_sonnet_4_6 == <<"s", "o", "n", "n", "e", "t", "-", "4", "-", "6">>
S_claude_opus_4_6 == <<"c", "l", "a", "u", "d", "e", "-", "o", "p", "u", "s", "-", "4", "-", "6">>
S_claude_sonnet_4_6 == <<"c", "l", "a", "u", "d", "e", "-", "s", "o", "n", "n", "e", "t", "-", "4", "-", "6">>

None == [tag |-> "None"]
Some(v) == [tag |-> "Some", v |-> v]

\* EffortLevel::as_str
as_str(level) ==
    CASE level = "Max" -> "max"
      [] level = "High" -> "high"
      [] level = "Medium" -> "medium"
      [] level = "Low" -> "low"

Adaptive(level) == [tag |-> "Adaptive", effort |-> level]
Enabled(hi, lo) == [tag |-> "Enabled", budget_tokens |-> [hi |-> hi, lo |-> lo]]

\* build_thinking_params without the `effort == High` exception
build_thinking_params_alwaysconfig(config) ==
    IF config.tag = "Adaptive" THEN
        [thinking |-> [type |-> "adaptive"],
         output_config |-> Some([effort |-> as_str(config.effort)])]
    ELSE IF config.tag = "Enabled" THEN
        [thinking |-> [type |-> "enabled", budget_tokens |-> config.budget_tokens],
         output_config |-> None]
    ELSE [thinking |-> None, output_config |-> None]

build_thinking_params(config) ==
    IF config.tag = "Adaptive" THEN
        [thinking |-> [type |-> "adaptive"],
         output_config |-> IF config.effort = "High" THEN None
                           ELSE Some([effort |-> as_str(config.effort)])]
    ELSE IF config.tag = "Enabled" THEN
        [thinking |-> [type |-> "enabled", budget_tokens |-> config.budget_tokens],
         output_config |-> None]
    ELSE [thinking |-> None, output_config |-> None]

\* parse_model_suffix matching the suffix without to_lowercase
parse_model_suffix_casesensitive(model) ==
    LET open_paren == rfind(model, "(") IN
    IF open_paren = 0 THEN [base |-> model, suffix |-> None]
    ELSE IF ~ends_with(model, <<")">>) THEN [base |-> model, suffix |-> None]
    ELSE
    LET base_model == SubSeq(model, 1, open_paren - 1)
        suffix == SubSeq(model, open_paren + 1, Len(model) - 1)
        is_valid == \/ suffix \in
                          {S_none, S_off, S_disabled, S_low, S_minimal, S_medium,
                           S_med, S_high, S_xhigh, S_max, S_auto}
                    \/ parse_u32(suffix).ok
    IN IF is_valid THEN [base |-> base_model, suffix |-> Some(suffix)]
       ELSE [base |-> model, suffix |-> None]

parse_model_suffix(model) ==
    LET open_paren == rfind(model, "(") IN
    IF open_paren = 0 THEN [base |-> model, suffix |-> None]
    ELSE IF ~ends_with(model, <<")">>) THEN [base |-> model, suffix |-> None]
    ELSE
    LET base_model == SubSeq(model, 1, open_paren - 1)
        suffix == SubSeq(model, open_paren + 1, Len(model) - 1)
        is_valid == \/ to_lowercase(suffix) \in
                          {S_none, S_off, S_disabled, S_low, S_minimal, S_medium,
                           S_med, S_high, S_xhigh, S_max, S_auto}
                    \/ parse_u32(suffix).ok
    IN IF is_valid THEN [base |-> base_model, suffix |-> Some(suffix)]
       ELSE [base |-> model, suffix |-> None]

supports_adaptive_thinking(model) ==
    LET lower == to_lowercase(model) IN
    \/ contains(lower, S_opus_4_6)
    \/ contains(lower, S_sonnet_4_6)
    \/ starts_with(lower, S_claude_opus_4_6)
    \/ starts_with(lower, S_claude_sonnet_4_6)

\* build_thinking_for_model giving auto the medium budget on older models, as
\* the adaptive branch groups auto with medium
build_thinking_for_model_automedium(model, effort) ==
    LET effort_lower == to_lowercase(effort) IN
    IF effort_lower \in {S_none, S_off, S_disabled} THEN None
    ELSE IF supports_adaptive_thinking(model) THEN
        IF effort_lower \in {S_low, S_minimal} THEN Adaptive("Low")
        ELSE IF effort_lower \in {S_medium, S_med, S_auto} THEN Adaptive("Medium")
        ELSE IF effort_lower = S_high THEN Adaptive("High")
        ELSE IF effort_lower \in {S_xhigh, S_max} THEN Adaptive("Max")
        ELSE LET n == parse_u32(effort) IN
             IF n.ok THEN
                 IF n.hi = 0 /\ n.lo = 0 THEN None
                 ELSE IF n.hi = 0 /\ n.lo <= 2048 THEN Adaptive("Low")
                 ELSE IF n.hi = 0 /\ n.lo <= 16384 THEN Adaptive("Medium")
                 ELSE IF n.hi = 0 /\ n.lo <= 49152 THEN Adaptive("High")
                 ELSE Adaptive("Max")
             ELSE Adaptive("High")
    ELSE
        IF effort_lower \in {S_low, S_minimal} THEN Enabled(0, 1024)
        ELSE IF effort_lower \in {S_medium, S_med, S_auto} THEN Enabled(0, 8192)
        ELSE IF effort_lower = S_high THEN Enabled(0, 32000)
        ELSE IF effort_lower \in {S_xhigh, S_max} THEN Enabled(0, 64000)
        ELSE LET n == parse_u32(effort) IN
             IF n.ok THEN Enabled(n.hi, n.lo) ELSE Enabled(0, 8192)

build_thinking_for_model(model, effort) ==
    LET effort_lower == to_lowercase(effort) IN
    IF effort_lower \in {S_none, S_off, S_disabled} THEN None
    ELSE IF supports_adaptive_thinking(model) THEN
        IF effort_lower \in {S_low, S_minimal} THEN Adaptive("Low")
        ELSE IF effort_lower \in {S_medium, S_med, S_auto} THEN Adaptive("Medium")
        ELSE IF effort_lower = S_high THEN Adaptive("High")
        ELSE IF effort_lower \in {S_xhigh, S_max} THEN Adaptive("Max")
        ELSE LET n == parse_u32(effort) IN
             IF n.ok THEN
                 IF n.hi = 0 /\ n.lo = 0 THEN None
                 ELSE IF n.hi = 0 /\ n.lo <= 2048 THEN Adaptive("Low")
                 ELSE IF n.hi = 0 /\ n.lo <= 16384 THEN Adaptive("Medium")
                 ELSE IF n.hi = 0 /\ n.lo <= 49152 THEN Adaptive("High")
                 ELSE Adaptive("Max")
             ELSE Adaptive("High")
    ELSE
        IF effort_lower \in {S_low, S_minimal} THEN Enabled(0, 1024)
        ELSE IF effort_lower \in {S_medium, S_med} THEN Enabled(0, 8192)
        ELSE IF effort_lower = S_high THEN Enabled(0, 32000)
        ELSE IF effort_lower \in {S_xhigh, S_max} THEN Enabled(0, 64000)
        ELSE IF effort_lower = S_auto THEN Enabled(0, 16000)
        ELSE LET n == parse_u32(effort) IN
             IF n.ok THEN Enabled(n.hi, n.lo) ELSE Enabled(0, 8192)

----------------------------------------------------------------------------
(* Request bodies a caller can hand to the planner *)

\* a tool definition or system block: a non-object, an object without
\* cache_control, an object with it
Items == {[k |-> "str", s |-> "x"]}
         \cup {[k |-> "obj", text |-> "t", cc |-> c] : c \in {"none", "given"}}

\* a content block of a user message
Blocks == {[k |-> "obj", text |-> "t", cc |-> c] : c \in {"none", "given"}}

ArraysOf(S, n) == UNION {[1..m -> S] : m \in 0..n}

JsonArrays(S, n) == {[k |-> "arr", a |-> x] : x \in ArraysOf(S, n)}

ToolsValues == {Absent} \cup JsonArrays(Items, MaxTools)

SystemValues == {Absent, Null, [k |-> "str", s |-> "sys"]}
                \cup JsonArrays(Items, MaxSystem)

UserContent == {[k |-> "str", s |-> "hi"]} \cup JsonArrays(Blocks, MaxBlocks)

\* content of a message of another role: a bare string or one annotated block
OtherContent == {[k |-> "str", s |-> "ok"],
                 [k |-> "arr", a |-> <<[k |-> "obj", text |-> "t", cc |-> "given"]>>]}

Messages == [role : {"user"}, content : UserContent]
            \cup [role : {"assistant"}, content : OtherContent]

MessagesValues == {Absent} \cup JsonArrays(Messages, MaxMsgs)

Bodies == [tools : ToolsValues, system : SystemValues, messages : MessagesValues]

----------------------------------------------------------------------------
(* Arguments a caller can hand to the thinking resolver *)

Pending == [tag |-> "pending"]

\* no second call, no client call and a clock that stands still
Quiet ==
    /\ clock = [ok |-> TRUE, v |-> 0]
    /\ again = Pending
    /\ pc = "idle"
    /\ requests = 0
    /\ http = [tag |-> "None"]
Idle == [fn |-> "idle"]

Keywords == {S_none, S_off, S_disabled, S_low, S_minimal, S_medium, S_med,
             S_high, S_xhigh, S_max, S_auto}

UpperChar(c) ==
    IF \E i \in 1..26 : LowerChars[i] = c
    THEN UpperChars[CHOOSE i \in 1..26 : LowerChars[i] = c]
    ELSE c

\* HIGH for high
Upper(s) == [i \in 1..Len(s) |-> UpperChar(s[i])]

\* High for high
Capital(s) == [i \in 1..Len(s) |-> IF i = 1 THEN UpperChar(s[i]) ELSE s[i]]

\* the effort words in lower case, upper case and capitalised
KeywordTokens == Keywords \cup {Upper(k) : k \in Keywords}
                          \cup {Capital(k) : k \in Keywords}

\* the decimal numeral of n, as a caller writes a number into the effort
RECURSIVE Decimal(_)
Decimal(n) ==
    IF n < 10 THEN <<DigitChars[n + 1]>>
    ELSE Decimal(n \div 10) \o <<DigitChars[(n % 10) + 1]>>

\* the values on both sides of each bucket limit of build_thinking_for_model
BucketLimits == {2047, 2048, 2049, 16383, 16384, 16385, 49151, 49152, 49153,
                 65535, 65536, 2147483647}

EffortNumbers == (0..MaxPlainEffort) \cup BucketLimits

S_u32_max == <<"4", "2", "9", "4", "9", "6", "7", "2", "9", "5">>
S_u32_over == <<"4", "2", "9", "4", "9", "6", "7", "2", "9", "6">>
S_huge == <<"9", "9", "9", "9", "9", "9", "9", "9", "9", "9", "9">>

\* numerals of u32 values: plain, with a leading '+', with a leading zero
NumeralTokens == {Decimal(n) : n \in EffortNumbers}
                 \cup {<<"+">> \o Decimal(n) : n \in 0..MaxPlainEffort}
                 \cup {<<"0">> \o Decimal(n) : n \in 0..MaxPlainEffort}
                 \cup {S_u32_max}

\* numerals of numbers above u32::MAX
OverflowTokens == {S_u32_over, S_huge}

\* the empty string, bogus, -1, 1.5, +, 12a, " high"
OtherTokens == {<<>>, <<"b", "o", "g", "u", "s">>,
                <<"-", "1">>, <<"1", ".", "5">>, <<"+">>,
                <<"1", "2", "a">>, <<" ", "h", "i", "g", "h">>}

Efforts == KeywordTokens \cup NumeralTokens \cup OverflowTokens \cup OtherTokens

S_claude_sonnet_4_5 == <<"c", "l", "a", "u", "d", "e", "-", "s", "o", "n", "n", "e", "t", "-", "4", "-", "5">>
S_gpt_4o == <<"g", "p", "t", "-", "4", "o">>

\* model identifiers whose case-folded form contains opus-4-6 or sonnet-4-6:
\* claude-opus-4-6, claude-sonnet-4-6, Claude-Opus-4-6, eu.sonnet-4-6-v1
AdaptiveModels == {S_claude_opus_4_6, S_claude_sonnet_4_6,
                   Capital(SubSeq(S_claude_opus_4_6, 1, 7))
                       \o Capital(SubSeq(S_claude_opus_4_6, 8, 15)),
                   <<"e", "u", ".">> \o S_sonnet_4_6 \o <<"-", "v", "1">>}

\* claude-sonnet-4-5, gpt-4o, the empty string, opus-4-1
OtherModels == {S_claude_sonnet_4_5, S_gpt_4o, <<>>, <<"o", "p", "u", "s", "-", "4", "-", "1">>}

\* Option<&ThinkingConfig> values
Configs == {None} \cup {Adaptive(l) : l \in {"Max", "High", "Medium", "Low"}}
           \cup {Enabled(0, 0), Enabled(0, 1024), Enabled(0, 32000),
                 Enabled(1, 0), Enabled(65535, 65535)}

\* model identifiers with and without a trailing (suffix), well formed or not
SuffixBases == {S_claude_sonnet_4_5, <<"m">>, <<>>}

SuffixedModels ==
    SuffixBases
    \cup UNION {{b \o <<"(">> \o t \o <<")">>,
                 b \o <<"(">> \o t,
                 b \o t \o <<")">>,
                 b \o <<"(">> \o t \o <<")", "x">>,
                 b \o <<"(">> \o t \o <<")", ")">>,
                 b \o <<"(", "x", ")", "(">> \o t \o <<")">>}
                : b \in SuffixBases, t \in Efforts}

ThinkingCalls ==
    [fn : {"build_thinking_for_model"},
     model : AdaptiveModels \cup OtherModels, effort : Efforts]
    \cup [fn : {"parse_model_suffix"}, model : SuffixedModels]
    \cup [fn : {"build_thinking_params"}, config : Configs]

----------------------------------------------------------------------------
(* The cache planner applied to a request body *)

InitCache ==
    /\ orig \in Bodies
    /\ prev = orig
    /\ body = orig
    /\ calls = 0
    /\ call = Idle
    /\ ret = Pending
    /\ Quiet

\* body = ensure_cache_control(body); the planner is applied to the caller's
\* body and then once more to its own result
EnsureCacheControl ==
    /\ calls < 2
    /\ prev' = body
    /\ body' = ensure_cache_control(body)
    /\ calls' = calls + 1
    /\ UNCHANGED <<orig, call, ret, others>>

NextCache == EnsureCacheControl

SpecCache == InitCache /\ [][NextCache]_vars

----------------------------------------------------------------------------
(* The thinking resolver's functions, each applied to its arguments *)

EmptyBody == [tools |-> Absent, system |-> Absent, messages |-> Absent]

InitThinking ==
    /\ call \in ThinkingCalls
    /\ ret = Pending
    /\ orig = EmptyBody
    /\ prev = EmptyBody
    /\ body = EmptyBody
    /\ calls = 0
    /\ Quiet

BuildThinkingParams ==
    /\ call.fn = "build_thinking_params"
    /\ ret = Pending
    /\ ret' = build_thinking_params(call.config)
    /\ UNCHANGED <<call, orig, prev, body, calls, others>>

ParseModelSuffix ==
    /\ call.fn = "parse_model_suffix"
    /\ ret = Pending
    /\ ret' = parse_model_suffix(call.model)
    /\ UNCHANGED <<call, orig, prev, body, calls, others>>

BuildThinkingForModel ==
    /\ call.fn = "build_thinking_for_model"
    /\ ret = Pending
    /\ ret' = build_thinking_for_model(call.model, call.effort)
    /\ UNCHANGED <<call, orig, prev, body, calls, others>>

NextThinking == BuildThinkingParams \/ ParseModelSuffix \/ BuildThinkingForModel

SpecThinking == InitThinking /\ [][NextThinking]_vars

----------------------------------------------------------------------------
(* Claims about the cache-breakpoint planner *)

\* C1 (as stated): for every request body, the body ensure_cache_control
\* returns carries at most 4 cache_control annotations
C1_AtMostFourForEveryBody ==
    calls >= 1 => count_cache_control_blocks(body) <= 4

\* C1 (amended): a body that enters with at most 4 annotations leaves with at
\* most 4; a body that enters with more than 4 is returned unchanged
C1_AtMostFourUnlessAlreadyOver ==
    calls >= 1 =>
        IF count_cache_control_blocks(prev) <= 4
        THEN count_cache_control_blocks(body) <= 4
        ELSE body = prev

\* the budget binds: 3 annotations enter, the tools zone takes the fourth and
\* the bare-string system prompt, which could take one, is left alone
C1_Witness ==
    /\ calls = 1
    /\ count_cache_control_blocks(prev) = 3
    /\ count_cache_control_blocks(body) = 4
    /\ body.tools # prev.tools
    /\ prev.system.k = "str"
    /\ body.system = prev.system

\* C2: ensure_cache_control(ensure_cache_control(b)) = ensure_cache_control(b):
\* the second call returns its argument unchanged
C2_Idempotent ==
    calls >= 2 => body = prev

\* the first call annotated something and left budget, so the second call
\* visits the zones again
C2_Witness ==
    /\ calls = 2
    /\ prev # orig
    /\ count_cache_control_blocks(prev) < 4
    /\ body = prev

\* new is old with cache_control {"type":"ephemeral"} added to the last element
LastAnnotated(old, new) ==
    /\ Len(old) > 0
    /\ Len(new) = Len(old)
    /\ \A i \in 1..(Len(old) - 1) : new[i] = old[i]
    /\ old[Len(old)].k = "obj"
    /\ new[Len(old)] = [k |-> "obj", text |-> old[Len(old)].text, cc |-> "ephemeral"]

\* new is the system prompt / message content old after it was served: its last
\* block annotated, a bare string first turned into a one-element block array
Served(old, new) ==
    IF old.k = "str"
    THEN new = [k |-> "arr",
                a |-> <<[k |-> "obj", text |-> old.s, cc |-> "ephemeral"]>>]
    ELSE old.k = "arr" /\ new.k = "arr" /\ LastAnnotated(old.a, new.a)

\* v can take an annotation: a bare string, or an unannotated non-empty array
\* whose last element is an object
Open(v) ==
    \/ v.k = "str"
    \/ /\ v.k = "arr"
       /\ Len(v.a) > 0
       /\ \A i \in 1..Len(v.a) : ~(v.a[i].k = "obj" /\ v.a[i].cc # "none")
       /\ v.a[Len(v.a)].k = "obj"

\* some content block of some message is annotated
MessagesAnnotated(m) ==
    /\ m.k = "arr"
    /\ \E i \in 1..Len(m.a) :
          /\ m.a[i].content.k = "arr"
          /\ \E j \in 1..Len(m.a[i].content.a) :
                m.a[i].content.a[j].k = "obj" /\ m.a[i].content.a[j].cc # "none"

\* positions of the user-role messages
Users(m) == IF m.k = "arr" THEN {i \in 1..Len(m.a) : m.a[i].role = "user"} ELSE {}

\* t is the second-to-last user-role message
SecondToLastUser(m, t) ==
    t \in Users(m) /\ Cardinality({j \in Users(m) : j > t}) = 1

ZoneCount(v) ==
    IF v.k = "arr"
    THEN Cardinality({i \in 1..Len(v.a) : v.a[i].k = "obj" /\ v.a[i].cc # "none"})
    ELSE 0

RECURSIVE MessagesCount(_)
MessagesCount(msgs) ==
    IF msgs = <<>> THEN 0
    ELSE ZoneCount(Head(msgs).content) + MessagesCount(Tail(msgs))

\* C4: one call adds at most one annotation to each zone, and a zone that
\* already holds an annotation anywhere is returned exactly as it was
C4_OnePerZoneAndAnnotatedZoneKept ==
    calls >= 1 =>
    /\ ZoneCount(body.tools) <= ZoneCount(prev.tools) + 1
    /\ ZoneCount(body.system) <= ZoneCount(prev.system) + 1
    /\ (prev.messages.k = "arr" =>
            /\ body.messages.k = "arr"
            /\ MessagesCount(body.messages.a) <= MessagesCount(prev.messages.a) + 1)
    /\ (ZoneCount(prev.tools) > 0 => body.tools = prev.tools)
    /\ (ZoneCount(prev.system) > 0 => body.system = prev.system)
    /\ (MessagesAnnotated(prev.messages) => body.messages = prev.messages)

\* the tools zone holds a caller-supplied annotation and is kept as it is,
\* while budget was left and the messages zone gained its annotation
C4_Witness ==
    /\ calls = 1
    /\ ZoneCount(orig.tools) = 1
    /\ orig.tools.a[Len(orig.tools.a)].cc = "given"
    /\ body.tools = orig.tools
    /\ ~MessagesAnnotated(orig.messages)
    /\ MessagesAnnotated(body.messages)

\* C5: a body that already carries 4 annotations, wherever they are, is
\* returned with no mutation at all
C5_SaturatedUntouched ==
    (calls >= 1 /\ count_cache_control_blocks(prev) = 4) => body = prev

\* 4 annotations sit in the messages, while the tools array and the
\* bare-string system prompt are both unannotated and could take one
C5_Witness ==
    /\ calls = 1
    /\ count_cache_control_blocks(orig) = 4
    /\ orig.tools.k = "arr" /\ Len(orig.tools.a) > 0
    /\ CountAnnotated(orig.tools.a) = 0
    /\ orig.tools.a[Len(orig.tools.a)].k = "obj"
    /\ orig.system.k = "str"
    /\ body = orig

----------------------------------------------------------------------------
(* Claims about the thinking resolver *)

\* the spellings of a word that must be treated alike
Spellings(words) == words \cup {Upper(k) : k \in words} \cup {Capital(k) : k \in words}

\* the numerals written for n: 7, +7, 07
NumeralsOf(n) == {Decimal(n), <<"+">> \o Decimal(n), <<"0">> \o Decimal(n)}

\* the effort level of the bucket a numeric effort n >= 1 falls in
BucketOf(n) ==
    IF n <= 2048 THEN "Low"
    ELSE IF n <= 16384 THEN "Medium"
    ELSE IF n <= 49152 THEN "High"
    ELSE "Max"

\* build_thinking_for_model has returned
Resolved == call.fn = "build_thinking_for_model" /\ ret # Pending

\* C6, the words: on an adaptive model low/minimal give Low, medium/med/auto
\* Medium, high High, xhigh/max Max, in any letter case
C6_Words ==
    (Resolved /\ call.model \in AdaptiveModels) =>
    /\ call.effort \in Spellings({S_low, S_minimal}) => ret = Adaptive("Low")
    /\ call.effort \in Spellings({S_medium, S_med, S_auto}) => ret = Adaptive("Medium")
    /\ call.effort \in Spellings({S_high}) => ret = Adaptive("High")
    /\ call.effort \in Spellings({S_xhigh, S_max}) => ret = Adaptive("Max")

\* C6, the numbers a u32 holds: 0 disables, any other n gives its bucket
C6_NumbersInRange ==
    (Resolved /\ call.model \in AdaptiveModels) =>
    /\ \A n \in EffortNumbers :
          call.effort \in NumeralsOf(n) =>
              ret = IF n = 0 THEN None ELSE Adaptive(BucketOf(n))
    /\ call.effort = S_u32_max => ret = Adaptive("Max")

\* C6, the rest: a token that is neither a word nor a number gives High
C6_OtherTokens ==
    (Resolved /\ call.model \in AdaptiveModels /\ call.effort \in OtherTokens) =>
        ret = Adaptive("High")

\* C6: on an adaptive model and for an effort that does not disable thinking,
\* the words map to their levels, a numeric effort n maps to None for 0 and to
\* the bucket of n otherwise, Max for every n above 49152, and any other token
\* maps to High
C6_AdaptiveLevels ==
    /\ C6_Words
    /\ C6_NumbersInRange
    /\ C6_OtherTokens
    /\ (Resolved /\ call.model \in AdaptiveModels /\ call.effort \in OverflowTokens) =>
           ret = Adaptive("Max")

\* C7: for every model, adaptive-capable or not, the efforts none, off and
\* disabled (in any letter case) and the effort 0 give None
C7_DisabledForEveryModel ==
    (Resolved /\ (\/ call.effort \in Spellings({S_none, S_off, S_disabled})
                  \/ call.effort = Decimal(0))) =>
        ret = None

\* C7, the part the code keeps: the three words disable thinking on every
\* model, and 0 does on an adaptive model
C7_DisabledWords ==
    /\ (Resolved /\ call.effort \in Spellings({S_none, S_off, S_disabled})) =>
           ret = None
    /\ (Resolved /\ call.effort = Decimal(0) /\ call.model \in AdaptiveModels) =>
           ret = None

C9_ThinkingParams ==
    (call.fn = "build_thinking_params" /\ ret # Pending) =>
    LET config == call.config IN
    /\ (ret.output_config # None) <=>
           (config.tag = "Adaptive" /\ config.effort # "High")
    /\ config = Adaptive("Max") => ret.output_config = Some([effort |-> "max"])
    /\ config = Adaptive("Medium") => ret.output_config = Some([effort |-> "medium"])
    /\ config = Adaptive("Low") => ret.output_config = Some([effort |-> "low"])
    /\ config.tag = "Adaptive" => ret.thinking = [type |-> "adaptive"]
    /\ config.tag = "Enabled" =>
           ret.thinking = [type |-> "enabled", budget_tokens |-> config.budget_tokens]
    /\ config = None => ret.thinking = None

\* Adaptive{Medium} gives {type: adaptive} and output_config {effort: medium}
C9_Witness ==
    /\ call.fn = "build_thinking_params"
    /\ call.config = Adaptive("Medium")
    /\ ret = [thinking |-> [type |-> "adaptive"],
              output_config |-> Some([effort |-> "medium"])]

\* the suffixes that are valid: an effort word in any letter case, or a
\* numeral of a u32
ValidSuffixTokens == Spellings(Keywords) \cup NumeralTokens

\* C10: parse_model_suffix(m) is (base, Some(suffix)) exactly when m ends with
\* ')' and the text between the last '(' and that ')' is a valid suffix; base
\* is m up to that '(' and suffix is as written; otherwise it is (m, None)
C10_SuffixGrammar ==
    (call.fn = "parse_model_suffix" /\ ret # Pending) =>
    LET m == call.model
        opens == {i \in 1..Len(m) : m[i] = "("}
        last == CHOOSE i \in opens : \A j \in opens : j <= i
    IN
    IF /\ opens # {}
       /\ m[Len(m)] = ")"
       /\ SubSeq(m, last + 1, Len(m) - 1) \in ValidSuffixTokens
    THEN ret = [base |-> SubSeq(m, 1, last - 1),
                suffix |-> Some(SubSeq(m, last + 1, Len(m) - 1))]
    ELSE ret = [base |-> m, suffix |-> None]

\* claude-sonnet-4-5(Medium) gives (claude-sonnet-4-5, Some(Medium))
C10_Witness ==
    /\ call.fn = "parse_model_suffix"
    /\ call.model = S_claude_sonnet_4_5 \o <<"(">> \o Capital(S_medium) \o <<")">>
    /\ ret = [base |-> S_claude_sonnet_4_5, suffix |-> Some(Capital(S_medium))]


----------------------------------------------------------------------------
(* JSON text, as serde_json writes and reads it (to_openai.rs:47, :147,     *)
(* :197; to_anthropic.rs:93)                                                *)
(*                                                                         *)
(* A serde_json::Value is a record tagged by j:                             *)
(*   [j |-> "null"]   [j |-> "bool", b |-> TRUE]                            *)
(*   [j |-> "num", digits |-> <<"4", "2">>]    a non-negative integer,      *)
(*                                             kept as its numeral          *)
(*   [j |-> "str", chars |-> <<"h", "i">>]                                  *)
(*   [j |-> "arr", items |-> <<v1, v2>>]                                    *)
(*   [j |-> "obj", members |-> f]     f a function from keys to values      *)
(* Numerals with a sign, a fraction or an exponent, and the escapes \b, \f  *)
(* and \u, are outside the texts used here.                                 *)

\* slice::join: the parts with sep between neighbours
RECURSIVE Join(_, _)
Join(parts, sep) ==
    IF parts = <<>> THEN <<>>
    ELSE IF Len(parts) = 1 THEN parts[1]
    ELSE parts[1] \o sep \o Join(Tail(parts), sep)

NL == "\n"

\* the characters of the texts used here, in ASCII order
Ascii == <<"\t", NL, "\r", " ", "\"", "+", ",", "-", "/">> \o DigitChars \o <<":">>
         \o UpperChars \o <<"[", "\\", "]">> \o LowerChars \o <<"{", "}">>

\* the order of str's Ord, which a Map's keys are kept in
RECURSIVE StrLess(_, _)
StrLess(a, b) ==
    IF b = <<>> THEN FALSE
    ELSE IF a = <<>> THEN TRUE
    ELSE LET ra == CHOOSE i \in 1..Len(Ascii) : Ascii[i] = Head(a)
             rb == CHOOSE i \in 1..Len(Ascii) : Ascii[i] = Head(b)
         IN IF ra # rb THEN ra < rb ELSE StrLess(Tail(a), Tail(b))

RECURSIVE SortedKeys(_)
SortedKeys(keys) ==
    IF keys = {} THEN <<>>
    ELSE LET k == CHOOSE x \in keys : \A y \in keys \ {x} : StrLess(x, y)
         IN <<k>> \o SortedKeys(keys \ {k})

EmptyObject == [j |-> "obj", members |-> <<>>]

\* a value on which serde_json::to_string returns Err
Unserializable == [j |-> "unserializable"]

\* the characters of a string as they stand between the quotes
RECURSIVE Escaped(_)
Escaped(s) ==
    IF s = <<>> THEN <<>>
    ELSE (CASE Head(s) = "\"" -> <<"\\", "\"">>
            [] Head(s) = "\\" -> <<"\\", "\\">>
            [] Head(s) = NL -> <<"\\", "n">>
            [] Head(s) = "\t" -> <<"\\", "t">>
            [] Head(s) = "\r" -> <<"\\", "r">>
            [] OTHER -> <<Head(s)>>) \o Escaped(Tail(s))

\* the compact text of a value: no white space, keys in order
RECURSIVE Serialize(_)
Serialize(v) ==
    CASE v.j = "null" -> <<"n", "u", "l", "l">>
      [] v.j = "bool" -> IF v.b THEN <<"t", "r", "u", "e">>
                         ELSE <<"f", "a", "l", "s", "e">>
      [] v.j = "num" -> v.digits
      [] v.j = "str" -> <<"\"">> \o Escaped(v.chars) \o <<"\"">>
      [] v.j = "arr" ->
            <<"[">> \o Join([i \in 1..Len(v.items) |-> Serialize(v.items[i])],
                            <<",">>) \o <<"]">>
      [] v.j = "obj" ->
            LET keys == SortedKeys(DOMAIN v.members)
            IN <<"{">> \o Join([i \in 1..Len(keys) |->
                                   <<"\"">> \o Escaped(keys[i]) \o <<"\"", ":">>
                                   \o Serialize(v.members[keys[i]])],
                               <<",">>) \o <<"}">>

OkOf(v) == [ok |-> TRUE, v |-> v]

\* serde_json::to_string
to_string(v) == IF v = Unserializable THEN Err ELSE OkOf(Serialize(v))

\* Result::unwrap_or_default for a Result<String, _>
unwrap_or_default(r) == IF r.ok THEN r.v ELSE <<>>

\* a parsed piece: the value and the position after it
At(v, next) == [ok |-> TRUE, v |-> v, next |-> next]

RECURSIVE SkipWs(_, _)
SkipWs(s, i) ==
    IF i <= Len(s) /\ s[i] \in {" ", NL, "\t", "\r"} THEN SkipWs(s, i + 1)
    ELSE i

\* the characters of a string, from the position after the opening quote
RECURSIVE ParseChars(_, _, _)
ParseChars(s, i, acc) ==
    IF i > Len(s) THEN Err
    ELSE IF s[i] = "\"" THEN At(acc, i + 1)
    ELSE IF s[i] = "\\" THEN
        IF i + 1 > Len(s) THEN Err
        ELSE IF s[i + 1] \in {"\"", "\\", "/"}
            THEN ParseChars(s, i + 2, Append(acc, s[i + 1]))
        ELSE IF s[i + 1] = "n" THEN ParseChars(s, i + 2, Append(acc, NL))
        ELSE IF s[i + 1] = "t" THEN ParseChars(s, i + 2, Append(acc, "\t"))
        ELSE IF s[i + 1] = "r" THEN ParseChars(s, i + 2, Append(acc, "\r"))
        ELSE Err
    ELSE IF s[i] \in {NL, "\t", "\r"} THEN Err
    ELSE ParseChars(s, i + 1, Append(acc, s[i]))

\* the end of the run of digits that starts at i
RECURSIVE DigitsEnd(_, _)
DigitsEnd(s, i) ==
    IF i <= Len(s) /\ IsDigit(s[i]) THEN DigitsEnd(s, i + 1) ELSE i

RECURSIVE ParseValue(_, _)
RECURSIVE ParseItems(_, _, _)
RECURSIVE ParseMembers(_, _, _)

\* one value, white space before it allowed
ParseValue(s, i) ==
    LET p == SkipWs(s, i)
        rest == SubSeq(s, p, Len(s))
    IN IF p > Len(s) THEN Err
       ELSE IF s[p] = "{" THEN
            IF SkipWs(s, p + 1) <= Len(s) /\ s[SkipWs(s, p + 1)] = "}"
            THEN At(EmptyObject, SkipWs(s, p + 1) + 1)
            ELSE ParseMembers(s, p + 1, <<>>)
       ELSE IF s[p] = "[" THEN
            IF SkipWs(s, p + 1) <= Len(s) /\ s[SkipWs(s, p + 1)] = "]"
            THEN At([j |-> "arr", items |-> <<>>], SkipWs(s, p + 1) + 1)
            ELSE ParseItems(s, p + 1, <<>>)
       ELSE IF s[p] = "\"" THEN
            LET r == ParseChars(s, p + 1, <<>>)
            IN IF r.ok THEN At([j |-> "str", chars |-> r.v], r.next) ELSE Err
       ELSE IF s[p] = "0" THEN At([j |-> "num", digits |-> <<"0">>], p + 1)
       ELSE IF IsDigit(s[p]) THEN
            At([j |-> "num", digits |-> SubSeq(s, p, DigitsEnd(s, p) - 1)],
               DigitsEnd(s, p))
       ELSE IF starts_with(rest, <<"n", "u", "l", "l">>)
            THEN At([j |-> "null"], p + 4)
       ELSE IF starts_with(rest, <<"t", "r", "u", "e">>)
            THEN At([j |-> "bool", b |-> TRUE], p + 4)
       ELSE IF starts_with(rest, <<"f", "a", "l", "s", "e">>)
            THEN At([j |-> "bool", b |-> FALSE], p + 5)
       ELSE Err

\* the items of an array from the position of an item on, up to the ']'
ParseItems(s, i, acc) ==
    LET r == ParseValue(s, i)
    IN IF ~r.ok THEN Err
       ELSE LET p == SkipWs(s, r.next)
            IN IF p > Len(s) THEN Err
               ELSE IF s[p] = "," THEN ParseItems(s, p + 1, Append(acc, r.v))
               ELSE IF s[p] = "]"
                    THEN At([j |-> "arr", items |-> Append(acc, r.v)], p + 1)
               ELSE Err

\* the members of an object from the position of a key on, up to the '}';
\* a key written twice keeps its last value
ParseMembers(s, i, m) ==
    LET p == SkipWs(s, i)
    IN IF p > Len(s) \/ s[p] # "\"" THEN Err
       ELSE LET key == ParseChars(s, p + 1, <<>>)
            IN IF ~key.ok THEN Err
               ELSE LET c == SkipWs(s, key.next)
                    IN IF c > Len(s) \/ s[c] # ":" THEN Err
                       ELSE LET r == ParseValue(s, c + 1)
                            IN IF ~r.ok THEN Err
                               ELSE LET q == SkipWs(s, r.next)
                                        m2 == (key.v :> r.v) @@ m
                                    IN IF q > Len(s) THEN Err
                                       ELSE IF s[q] = ","
                                            THEN ParseMembers(s, q + 1, m2)
                                       ELSE IF s[q] = "}"
                                            THEN At([j |-> "obj", members |-> m2], q + 1)
                                       ELSE Err

\* serde_json::from_str::<Value>: one value, and nothing but white space
\* after it
from_str(s) ==
    LET r == ParseValue(s, 1)
    IN IF ~r.ok THEN Err
       ELSE IF SkipWs(s, r.next) <= Len(s) THEN Err
       ELSE OkOf(r.v)

----------------------------------------------------------------------------
(* types/anthropic.rs, types/openai.rs, types/common.rs: the values the     *)
(* converters read and build.  Roles, identifiers, tool names and stop      *)
(* reasons are only compared and copied, so they are kept as whole strings; *)
(* texts that are joined, split or parsed are sequences of characters.      *)

\* ContentBlock
Text(t) == [type |-> "text", text |-> t]
Thinking(t, signature) == [type |-> "thinking", thinking |-> t, signature |-> signature]
ToolUse(id, name, input) == [type |-> "tool_use", id |-> id, name |-> name, input |-> input]
ToolResult(tool_use_id, content, is_error) ==
    [type |-> "tool_result", tool_use_id |-> tool_use_id, content |-> content,
     is_error |-> is_error]

ChatMessage_system(content) ==
    [role |-> "system", content |-> Some(content), tool_calls |-> None,
     tool_call_id |-> None]

ChatMessage_user(content) ==
    [role |-> "user", content |-> Some(content), tool_calls |-> None,
     tool_call_id |-> None]

ChatMessage_tool_result(tool_call_id, content) ==
    [role |-> "tool", content |-> Some(content), tool_calls |-> None,
     tool_call_id |-> Some(tool_call_id)]

\* StopReason
EndTurn == [tag |-> "EndTurn"]
StopToolUse == [tag |-> "ToolUse"]
MaxTokens == [tag |-> "MaxTokens"]
Other(s) == [tag |-> "Other", s |-> s]

from_openai(s) ==
    CASE s = "stop" -> EndTurn
      [] s = "tool_calls" -> StopToolUse
      [] s = "length" -> MaxTokens
      [] OTHER -> Other(s)

to_openai(r) ==
    CASE r = EndTurn -> "stop"
      [] r = StopToolUse -> "tool_calls"
      [] r = MaxTokens -> "length"
      [] OTHER -> r.s

(* A u64 is kept as four 16-bit limbs, the lowest first, so that sums up to *)
(* and beyond u64::MAX are exact.                                           *)

\* limb-wise addition: the limbs of a + b + carry and the carry out of the top
RECURSIVE AddLimbs(_, _, _)
AddLimbs(a, b, carry) ==
    IF a = <<>> THEN [limbs |-> <<>>, carry |-> carry]
    ELSE LET x == Head(a) + Head(b) + carry
             r == AddLimbs(Tail(a), Tail(b), x \div 65536)
         IN [limbs |-> <<x % 65536>> \o r.limbs, carry |-> r.carry]

Panic == [tag |-> "panic"]

\* a + b on u64: with overflow checks (the debug profile) a sum above
\* u64::MAX panics, without them (the release profile) it wraps
u64_add(a, b, overflow_checks) ==
    LET r == AddLimbs(a, b, 0)
    IN [panicked |-> r.carry = 1 /\ overflow_checks, v |-> r.limbs]

----------------------------------------------------------------------------
(* convert/to_openai.rs *)

\* content.iter().filter_map(Text { text } => Some(text)).collect()
TextsOf(content) ==
    LET sel == SelectSeq(content, LAMBDA b : b.type = "text")
    IN [i \in 1..Len(sel) |-> sel[i].text]

\* the ToolUse blocks as tool calls, in block order; call_type is "function"
\* in the form the caller's struct holds it
ToolCallsOf(content, call_type) ==
    LET sel == SelectSeq(content, LAMBDA b : b.type = "tool_use")
    IN [i \in 1..Len(sel) |->
           [id |-> sel[i].id, call_type |-> call_type,
            function |-> [name |-> sel[i].name,
                          arguments |-> unwrap_or_default(to_string(sel[i].input))]]]

\* variant of AssistantMessage: the tool calls are taken in reverse order
AssistantMessage_reversed(msg) ==
    LET text_parts == TextsOf(msg.content)
        calls_out == ToolCallsOf(msg.content, "function")
        tool_calls == [i \in 1..Len(calls_out) |-> calls_out[Len(calls_out) + 1 - i]]
    IN <<[role |-> "assistant",
          content |-> IF text_parts = <<>> THEN None
                      ELSE Some(Join(text_parts, <<NL>>)),
          tool_calls |-> IF tool_calls = <<>> THEN None ELSE Some(tool_calls),
          tool_call_id |-> None]>>

\* the loop body for msg.role == "assistant"
AssistantMessage(msg) ==
    LET text_parts == TextsOf(msg.content)
        tool_calls == ToolCallsOf(msg.content, "function")
    IN <<[role |-> "assistant",
          content |-> IF text_parts = <<>> THEN None
                      ELSE Some(Join(text_parts, <<NL>>)),
          tool_calls |-> IF tool_calls = <<>> THEN None ELSE Some(tool_calls),
          tool_call_id |-> None]>>

\* variant of UserMessage: the texts are joined without a separator
UserMessage_concat(msg) ==
    LET results == SelectSeq(msg.content, LAMBDA b : b.type = "tool_result")
    IN IF results # <<>>
       THEN [i \in 1..Len(results) |->
                ChatMessage_tool_result(results[i].tool_use_id, results[i].content)]
       ELSE <<ChatMessage_user(Join(TextsOf(msg.content), <<>>))>>

\* variant of UserMessage: the text is sent as a user message as well
UserMessage_withtext(msg) ==
    LET results == SelectSeq(msg.content, LAMBDA b : b.type = "tool_result")
    IN [i \in 1..Len(results) |->
           ChatMessage_tool_result(results[i].tool_use_id, results[i].content)]
       \o <<ChatMessage_user(Join(TextsOf(msg.content), <<NL>>))>>

\* the loop body for msg.role == "user"
UserMessage(msg) ==
    LET results == SelectSeq(msg.content, LAMBDA b : b.type = "tool_result")
    IN IF results # <<>>
       THEN [i \in 1..Len(results) |->
                ChatMessage_tool_result(results[i].tool_use_id, results[i].content)]
       ELSE <<ChatMessage_user(Join(TextsOf(msg.content), <<NL>>))>>

\* the loop over the messages
RECURSIVE ConvertMessages(_)
ConvertMessages(messages) ==
    IF messages = <<>> THEN <<>>
    ELSE LET msg == Head(messages)
         IN (IF msg.role = "assistant" THEN AssistantMessage(msg)
             ELSE IF msg.role = "user" THEN UserMessage(msg)
             ELSE <<>>) \o ConvertMessages(Tail(messages))

\* the system message put after the conversation
messages_to_openai_systemlast(system, messages) ==
    ConvertMessages(messages)
    \o (IF system.tag = "Some" THEN <<ChatMessage_system(system.v)>> ELSE <<>>)

messages_to_openai(system, messages) ==
    (IF system.tag = "Some" THEN <<ChatMessage_system(system.v)>> ELSE <<>>)
    \o ConvertMessages(messages)

\* resp.usage.map(...) of response_to_anthropic
UsageOfResponse(usage) ==
    IF usage.tag = "None" THEN None
    ELSE Some([input_tokens |-> usage.v.prompt_tokens,
               output_tokens |-> usage.v.completion_tokens,
               cache_creation_input_tokens |-> usage.v.cache_creation_input_tokens,
               cache_read_input_tokens |-> usage.v.cache_read_input_tokens])

\* variant of OfChoice: a tool call that does not parse fails the conversion
OfChoice_strict(resp, choice) ==
    LET text_part ==
            IF choice.message.content.tag = "Some" /\ choice.message.content.v # <<>>
            THEN <<Text(choice.message.content.v)>>
            ELSE <<>>
        tcs == IF choice.message.tool_calls.tag = "Some"
               THEN choice.message.tool_calls.v ELSE <<>>
        tool_part ==
            [i \in 1..Len(tcs) |->
                ToolUse(tcs[i].id, tcs[i].function.name,
                        from_str(tcs[i].function.arguments).v)]
    IN IF \E i \in 1..Len(tcs) : ~from_str(tcs[i].function.arguments).ok
       THEN [ok |-> FALSE, msg |-> "invalid tool arguments"]
       ELSE OkOf([id |-> resp.id,
                  model |-> resp.model,
                  content |-> text_part \o tool_part,
                  stop_reason |-> from_openai(IF choice.finish_reason.tag = "Some"
                                              THEN choice.finish_reason.v ELSE "stop"),
                  usage |-> UsageOfResponse(resp.usage)])

\* the content and stop reason built from one choice
OfChoice(resp, choice) ==
    LET text_part ==
            IF choice.message.content.tag = "Some" /\ choice.message.content.v # <<>>
            THEN <<Text(choice.message.content.v)>>
            ELSE <<>>
        tcs == IF choice.message.tool_calls.tag = "Some"
               THEN choice.message.tool_calls.v ELSE <<>>
        tool_part ==
            [i \in 1..Len(tcs) |->
                LET parsed == from_str(tcs[i].function.arguments)
                IN ToolUse(tcs[i].id, tcs[i].function.name,
                           IF parsed.ok THEN parsed.v ELSE EmptyObject)]
    IN OkOf([id |-> resp.id,
             model |-> resp.model,
             content |-> text_part \o tool_part,
             stop_reason |-> from_openai(IF choice.finish_reason.tag = "Some"
                                         THEN choice.finish_reason.v ELSE "stop"),
             usage |-> UsageOfResponse(resp.usage)])

\* variant of response_to_anthropic: the last choice is taken
response_to_anthropic_last(resp) ==
    IF resp.choices = <<>>
    THEN [ok |-> FALSE, msg |-> "OpenAI response had no choices"]
    ELSE OfChoice(resp, resp.choices[Len(resp.choices)])

response_to_anthropic(resp) ==
    IF resp.choices = <<>>
    THEN [ok |-> FALSE, msg |-> "OpenAI response had no choices"]
    ELSE OfChoice(resp, Head(resp.choices))

\* MessagesResponse::text (types/anthropic.rs)
MessagesResponse_text(resp) == Join(TextsOf(resp.content), <<>>)

\* resp.usage.map(...) of anthropic_response_to_openai
UsageOfMessages(usage, overflow_checks) ==
    IF usage.tag = "None" THEN None
    ELSE LET total == u64_add(usage.v.input_tokens, usage.v.output_tokens,
                              overflow_checks)
         IN IF total.panicked THEN Panic
            ELSE Some([prompt_tokens |-> usage.v.input_tokens,
                       completion_tokens |-> usage.v.output_tokens,
                       total_tokens |-> total.v,
                       cache_creation_input_tokens |-> usage.v.cache_creation_input_tokens,
                       cache_read_input_tokens |-> usage.v.cache_read_input_tokens])

\* now is SystemTime::now().duration_since(UNIX_EPOCH) in whole seconds, Err
\* for a clock set before the epoch
anthropic_response_to_openai(resp, now, overflow_checks) ==
    LET text_parts == TextsOf(resp.content)
        thinking == SelectSeq(resp.content, LAMBDA b : b.type = "thinking")
        reasoning_parts == [i \in 1..Len(thinking) |-> thinking[i].thinking]
        tool_calls == ToolCallsOf(resp.content, Some("function"))
        usage == UsageOfMessages(resp.usage, overflow_checks)
    IN IF usage = Panic THEN Panic
       ELSE [id |-> resp.id,
             object |-> Some("chat.completion"),
             created |-> Some(IF now.ok THEN now.v ELSE 0),
             model |-> resp.model,
             choices |-> <<[index |-> Some(0),
                            message |->
                                [role |-> Some("assistant"),
                                 content |-> IF text_parts = <<>> THEN None
                                             ELSE Some(Join(text_parts, <<>>)),
                                 reasoning_content |->
                                     IF reasoning_parts = <<>> THEN None
                                     ELSE Some(Join(reasoning_parts, <<>>)),
                                 tool_calls |-> IF tool_calls = <<>> THEN None
                                                ELSE Some(tool_calls)],
                            finish_reason |-> Some(to_openai(resp.stop_reason))]>>,
             usage |-> usage]

----------------------------------------------------------------------------
(* The messages and responses the converters of to_openai.rs are applied to *)

MaxContent == 2     \* content blocks in a message
MaxConv == 2        \* messages in a conversation
MaxChoices == 2     \* choices in a flat response
MaxToolCalls == 2   \* tool calls in a choice

Texts == {<<>>, <<"a">>, <<"b">>}

ObjectA == [j |-> "obj", members |-> (<<"a">> :> [j |-> "num", digits |-> <<"1">>])]

\* {"a":1,"b":"x\"y"}
ObjectAB ==
    [j |-> "obj",
     members |-> (<<"a">> :> [j |-> "num", digits |-> <<"1">>])
                 @@ (<<"b">> :> [j |-> "str", chars |-> <<"x", "\"", "y">>])]

\* argument texts of tool calls, each with what a JSON reader makes of it
ArgSamples ==
    { [arguments |-> <<"{", "}">>, parsed |-> OkOf(EmptyObject)],
      [arguments |-> <<"{", "\"", "a", "\"", ":", "1", "}">>, parsed |-> OkOf(ObjectA)],
      [arguments |-> <<" ", "{", "\"", "b", "\"", ":", " ", "\"", "x", "\\", "\"", "y",
                       "\"", ",", NL, "\"", "a", "\"", ":", "1", "}", " ">>,
       parsed |-> OkOf(ObjectAB)],
      [arguments |-> <<"[", "t", "r", "u", "e", ",", "n", "u", "l", "l", "]">>,
       parsed |-> OkOf([j |-> "arr", items |-> <<[j |-> "bool", b |-> TRUE],
                                                [j |-> "null"]>>])],
      [arguments |-> <<"{", "n", "o", "t", " ", "j", "s", "o", "n">>, parsed |-> Err],
      [arguments |-> <<>>, parsed |-> Err],
      [arguments |-> <<"{", "}", "x">>, parsed |-> Err],
      [arguments |-> <<"[", "1", ",", "]">>, parsed |-> Err] }

ContentBlocks ==
    {Text(t) : t \in Texts}
    \cup {Thinking(<<"t">>, None), Thinking(<<"u">>, Some("sig"))}
    \cup {ToolUse("call_1", "get_weather", EmptyObject),
          ToolUse("call_2", "search", ObjectA),
          ToolUse("call_3", "lookup", ObjectAB),
          ToolUse("call_4", "broken", Unserializable)}
    \cup {ToolResult("call_1", <<"r">>, None),
          ToolResult("call_2", <<>>, Some(TRUE))}

Roles == {"user", "assistant", "system"}

StructuredMessages == [role : Roles, content : ArraysOf(ContentBlocks, MaxContent)]

\* short messages, for conversations of several
ShortMessages ==
    [role : Roles,
     content : ArraysOf({Text(<<"a">>), Thinking(<<"t">>, None),
                         ToolUse("call_1", "get_weather", EmptyObject),
                         ToolResult("call_1", <<"r">>, None)}, 1)]

Conversations ==
    {<<m>> : m \in StructuredMessages} \cup ArraysOf(ShortMessages, MaxConv)

FlatToolCalls ==
    [id : {"call_1"}, call_type : {Some("function")},
     function : [name : {"get_weather"},
                 arguments : {s.arguments : s \in ArgSamples}]]

FinishReasons == {None, Some("stop"), Some("tool_calls"), Some("length"),
                  Some("content_filter")}

Choices ==
    [index : {None},
     message : [role : {Some("assistant")},
                content : {None} \cup {Some(t) : t \in {<<>>, <<"a">>}},
                reasoning_content : {None},
                tool_calls : {None} \cup {Some(l) : l \in ArraysOf(FlatToolCalls, MaxToolCalls)}],
     finish_reason : FinishReasons]

\* the choices after the first of a response
LaterChoices ==
    [index : {None},
     message : [role : {Some("assistant")},
                content : {Some(<<"z">>)},
                reasoning_content : {None},
                tool_calls : {None, Some(<<[id |-> "call_9", call_type |-> None,
                                            function |-> [name |-> "other",
                                                          arguments |-> <<"{", "}">>]]>>)}],
     finish_reason : {Some("length")}]

U64_MAX == <<65535, 65535, 65535, 65535>>

U64Samples == {<<0, 0, 0, 0>>, <<1, 0, 0, 0>>, <<12, 0, 0, 0>>, <<65535, 65535, 0, 0>>,
               U64_MAX}

CacheCounts == {None, Some(<<5, 0, 0, 0>>)}

ResponseUsages ==
    {None, Some([prompt_tokens |-> <<12, 0, 0, 0>>, completion_tokens |-> <<1, 0, 0, 0>>,
                 total_tokens |-> <<13, 0, 0, 0>>,
                 cache_creation_input_tokens |-> None,
                 cache_read_input_tokens |-> Some(<<5, 0, 0, 0>>)])}

ChatResponses ==
    [id : {None, Some("chatcmpl-1")}, object : {None}, created : {None},
     model : {Some("gpt-4o")},
     choices : {<<>>} \cup {<<c>> \o rest : c \in Choices,
                            rest \in ArraysOf(LaterChoices, MaxChoices - 1)},
     usage : ResponseUsages]

Usages ==
    {None} \cup {Some(u) : u \in [input_tokens : U64Samples, output_tokens : U64Samples,
                                  cache_creation_input_tokens : CacheCounts,
                                  cache_read_input_tokens : CacheCounts]}

StopReasons == {EndTurn, StopToolUse, MaxTokens, Other("refusal")}

MessagesResponses ==
    [id : {Some("msg_1")}, model : {Some("claude-sonnet-4-5")},
     content : ArraysOf(ContentBlocks, MaxContent), stop_reason : StopReasons,
     usage : {None, Some([input_tokens |-> <<12, 0, 0, 0>>,
                          output_tokens |-> <<1, 0, 0, 0>>,
                          cache_creation_input_tokens |-> None,
                          cache_read_input_tokens |-> Some(<<5, 0, 0, 0>>)])}]
    \cup [id : {None}, model : {None}, content : {<<Text(<<"a">>)>>},
          stop_reason : {EndTurn}, usage : Usages]

\* readings of the clock: before the epoch, at it, and a present-day second
Clock == {Err, OkOf(0), OkOf(1762300800)}

OpenaiCalls ==
    [fn : {"messages_to_openai"}, system : {None, Some(<<"s">>)}, messages : Conversations]
    \cup [fn : {"response_to_anthropic"}, resp : ChatResponses]
    \cup [fn : {"anthropic_response_to_openai"}, resp : MessagesResponses,
          now : Clock, overflow_checks : BOOLEAN]
    \cup [fn : {"round_trip"}, message : StructuredMessages]

----------------------------------------------------------------------------
(* The converters of to_openai.rs, each applied to its arguments *)

InitOpenai ==
    /\ call \in OpenaiCalls
    /\ ret = Pending
    /\ orig = EmptyBody
    /\ prev = EmptyBody
    /\ body = EmptyBody
    /\ calls = 0
    /\ Quiet

MessagesToOpenai ==
    /\ call.fn = "messages_to_openai"
    /\ ret = Pending
    /\ ret' = [out |-> messages_to_openai(call.system, call.messages)]
    /\ UNCHANGED <<call, orig, prev, body, calls, others>>

ResponseToAnthropic ==
    /\ call.fn = "response_to_anthropic"
    /\ ret = Pending
    /\ ret' = response_to_anthropic(call.resp)
    /\ UNCHANGED <<call, orig, prev, body, calls, others>>

AnthropicResponseToOpenai ==
    /\ call.fn = "anthropic_response_to_openai"
    /\ ret = Pending
    /\ ret' = anthropic_response_to_openai(call.resp, call.now, call.overflow_checks)
    /\ UNCHANGED <<call, orig, prev, body, calls, others>>

\* the flat messages a provider answers with, as the choices of its response
AsResponse(flat) ==
    [id |-> None, object |-> None, created |-> None, model |-> None,
     choices |-> [i \in 1..Len(flat) |->
                     [index |-> Some(i - 1),
                      message |-> [role |-> Some(flat[i].role),
                                   content |-> flat[i].content,
                                   reasoning_content |-> None,
                                   tool_calls |->
                                       IF flat[i].tool_calls.tag = "None" THEN None
                                       ELSE Some([k \in 1..Len(flat[i].tool_calls.v) |->
                                           [id |-> flat[i].tool_calls.v[k].id,
                                            call_type |-> Some(flat[i].tool_calls.v[k].call_type),
                                            function |-> flat[i].tool_calls.v[k].function]])],
                      finish_reason |-> None]],
     usage |-> None]

\* response_to_anthropic(messages_to_openai(None, [message])): a structured
\* message made flat and the flat message read back
TextRoundTrip ==
    /\ call.fn = "round_trip"
    /\ ret = Pending
    /\ ret' = response_to_anthropic(AsResponse(messages_to_openai(None, <<call.message>>)))
    /\ UNCHANGED <<call, orig, prev, body, calls, others>>

NextOpenai ==
    \/ MessagesToOpenai
    \/ ResponseToAnthropic
    \/ AnthropicResponseToOpenai
    \/ TextRoundTrip

SpecOpenai == InitOpenai /\ [][NextOpenai]_vars

----------------------------------------------------------------------------
(* Claims about messages_to_openai *)

Converted == call.fn = "messages_to_openai" /\ ret # Pending

ResultsOf(m) == SelectSeq(m.content, LAMBDA b : b.type = "tool_result")

\* the number of flat messages a structured message is to become
FlatCount(m) ==
    IF m.role = "assistant" THEN 1
    ELSE IF m.role = "user"
         THEN (IF ResultsOf(m) # <<>> THEN Len(ResultsOf(m)) ELSE 1)
    ELSE 0

RECURSIVE FlatBefore(_, _)
FlatBefore(msgs, n) ==
    IF n = 0 THEN 0 ELSE FlatBefore(msgs, n - 1) + FlatCount(msgs[n])

\* the flat messages that stand for the i-th structured message
FlatOf(i) ==
    LET start == (IF call.system.tag = "Some" THEN 1 ELSE 0)
                 + FlatBefore(call.messages, i - 1)
    IN SubSeq(ret.out, start + 1, start + FlatCount(call.messages[i]))

\* the output is the system message, if any, and then the flat messages of
\* each structured message in turn, and nothing else
FlatLayout ==
    Len(ret.out) = (IF call.system.tag = "Some" THEN 1 ELSE 0)
                   + FlatBefore(call.messages, Len(call.messages))

\* C11: a user message with at least one ToolResult block becomes one flat
\* "tool" message per ToolResult block, in block order, with the block's
\* tool_use_id as tool_call_id and its content as content, and no flat "user"
\* message; every flat "tool" message carries a tool_call_id; a user message
\* without ToolResult blocks becomes one flat "user" message whose content is
\* its Text blocks joined by newline
C11_UserMessages ==
    Converted =>
        /\ FlatLayout
        /\ \A i \in 1..Len(call.messages) :
              call.messages[i].role = "user" =>
                  LET m == call.messages[i]
                      results == ResultsOf(m)
                      texts == SelectSeq(m.content, LAMBDA b : b.type = "text")
                      flat == FlatOf(i)
                  IN IF results # <<>>
                     THEN /\ Len(flat) = Len(results)
                          /\ \A k \in 1..Len(flat) :
                                /\ flat[k].role = "tool"
                                /\ flat[k].tool_call_id = Some(results[k].tool_use_id)
                                /\ flat[k].content = Some(results[k].content)
                                /\ flat[k].tool_calls = None
                     ELSE /\ Len(flat) = 1
                          /\ flat[1].role = "user"
                          /\ flat[1].content =
                                Some(Join([k \in 1..Len(texts) |-> texts[k].text], <<NL>>))
                          /\ flat[1].tool_calls = None
                          /\ flat[1].tool_call_id = None
        /\ \A k \in 1..Len(ret.out) :
              ret.out[k].role = "tool" => ret.out[k].tool_call_id.tag = "Some"

\* a user message of a text and two tool results has become two tool messages
C11_Witness ==
    /\ call.fn = "messages_to_openai"
    /\ call.system = None
    /\ call.messages = <<[role |-> "user",
                          content |-> <<Text(<<"a">>), ToolResult("call_1", <<"r">>, None)>>]>>
    /\ ret = [out |-> <<[role |-> "tool", content |-> Some(<<"r">>),
                         tool_calls |-> None, tool_call_id |-> Some("call_1")]>>]

\* C12: each assistant message becomes one flat assistant message; its content
\* is the Text blocks joined by newline, absent without a Text block; its
\* tool_calls are the ToolUse blocks in block order, id and name kept and the
\* arguments a JSON text that reads back as the input, absent without a
\* ToolUse block; Thinking blocks show in neither
C12_AssistantMessages ==
    Converted =>
        /\ FlatLayout
        /\ \A i \in 1..Len(call.messages) :
              call.messages[i].role = "assistant" =>
                  LET m == call.messages[i]
                      texts == SelectSeq(m.content, LAMBDA b : b.type = "text")
                      uses == SelectSeq(m.content, LAMBDA b : b.type = "tool_use")
                      flat == FlatOf(i)
                  IN /\ Len(flat) = 1
                     /\ flat[1].role = "assistant"
                     /\ flat[1].tool_call_id = None
                     /\ flat[1].content =
                           IF texts = <<>> THEN None
                           ELSE Some(Join([k \in 1..Len(texts) |-> texts[k].text], <<NL>>))
                     /\ IF uses = <<>> THEN flat[1].tool_calls = None
                        ELSE /\ flat[1].tool_calls.tag = "Some"
                             /\ Len(flat[1].tool_calls.v) = Len(uses)
                             /\ \A k \in 1..Len(uses) :
                                   LET tc == flat[1].tool_calls.v[k]
                                   IN /\ tc.id = uses[k].id
                                      /\ tc.call_type = "function"
                                      /\ tc.function.name = uses[k].name
                                      /\ uses[k].input # Unserializable =>
                                            from_str(tc.function.arguments)
                                                = OkOf(uses[k].input)

\* an assistant message of a thinking block and a tool use: no content, one
\* tool call
C12_Witness ==
    /\ call.fn = "messages_to_openai"
    /\ call.messages = <<[role |-> "assistant",
                          content |-> <<Thinking(<<"t">>, None),
                                        ToolUse("call_3", "lookup", ObjectAB)>>]>>
    /\ ret # Pending
    /\ ret.out[Len(ret.out)] =
          [role |-> "assistant", content |-> None, tool_call_id |-> None,
           tool_calls |-> Some(<<[id |-> "call_3", call_type |-> "function",
                                  function |->
                                      [name |-> "lookup",
                                       arguments |-> <<"{", "\"", "a", "\"", ":", "1", ",",
                                                       "\"", "b", "\"", ":", "\"", "x", "\\",
                                                       "\"", "y", "\"", "}">>]]>>)]

C13_NeverAborts ==
    Converted =>
        \A i \in 1..Len(call.messages) :
            call.messages[i].role = "assistant" =>
                LET uses == SelectSeq(call.messages[i].content,
                                      LAMBDA b : b.type = "tool_use")
                    flat == FlatOf(i)
                IN \A k \in 1..Len(uses) :
                      uses[k].input = Unserializable =>
                          /\ flat[1].tool_calls.v[k].id = uses[k].id
                          /\ flat[1].tool_calls.v[k].function.arguments = <<>>

----------------------------------------------------------------------------
(* Claims about response_to_anthropic *)

Normalized == call.fn = "response_to_anthropic" /\ ret # Pending

\* C14: with zero choices the result is an error; otherwise the conversion
\* succeeds and its result is the one of the same response cut down to its
\* first choice: the later choices have no influence
C14_FirstChoiceOnly ==
    Normalized =>
        IF call.resp.choices = <<>> THEN ~ret.ok
        ELSE /\ ret.ok
             /\ OkOf(ret.v) = response_to_anthropic(
                                  [call.resp EXCEPT !.choices = <<Head(@)>>])
             /\ ret.v.stop_reason =
                   LET f == Head(call.resp.choices).finish_reason
                   IN CASE f \in {None, Some("stop")} -> EndTurn
                        [] f = Some("tool_calls") -> StopToolUse
                        [] f = Some("length") -> MaxTokens
                        [] OTHER -> Other(f.v)

\* a response of two choices: the text and the stop reason are the first's
C14_Witness ==
    /\ Normalized
    /\ Len(call.resp.choices) = 2
    /\ Head(call.resp.choices).message.content = Some(<<"a">>)
    /\ Head(call.resp.choices).message.tool_calls = None
    /\ Head(call.resp.choices).finish_reason = Some("stop")
    /\ call.resp.choices[2].message.tool_calls # None
    /\ ret.ok
    /\ ret.v.content = <<Text(<<"a">>)>>
    /\ ret.v.stop_reason = EndTurn

\* what a JSON reader makes of an argument text, the empty object when it is
\* not JSON
InputOf(arguments) ==
    LET s == CHOOSE x \in ArgSamples : x.arguments = arguments
    IN IF s.parsed.ok THEN s.parsed.v ELSE EmptyObject

\* C15: the content is the Text block of the first choice's text, present
\* only when that text is not empty, and then one ToolUse block per tool call
\* in the original order, id and name kept, the input read from the arguments
\* and the empty object where they are not JSON; the conversion succeeds
C15_MalformedArguments ==
    (Normalized /\ call.resp.choices # <<>>) =>
        LET c == Head(call.resp.choices)
            tcs == IF c.message.tool_calls.tag = "Some" THEN c.message.tool_calls.v
                   ELSE <<>>
            n == IF c.message.content \notin {None, Some(<<>>)} THEN 1 ELSE 0
        IN /\ ret.ok
           /\ Len(ret.v.content) = n + Len(tcs)
           /\ n = 1 => ret.v.content[1] = Text(c.message.content.v)
           /\ \A k \in 1..Len(tcs) :
                 ret.v.content[n + k] =
                     ToolUse(tcs[k].id, tcs[k].function.name,
                             InputOf(tcs[k].function.arguments))

\* an empty text, a tool call that is not JSON and one that is: no Text
\* block, an empty input, and the second call's input read
C15_Witness ==
    /\ Normalized
    /\ call.resp.choices # <<>>
    /\ Head(call.resp.choices).message.content = Some(<<>>)
    /\ Head(call.resp.choices).message.tool_calls =
          Some(<<[id |-> "call_1", call_type |-> Some("function"),
                  function |-> [name |-> "get_weather",
                                arguments |-> <<"{", "n", "o", "t", " ", "j", "s", "o", "n">>]],
                 [id |-> "call_1", call_type |-> Some("function"),
                  function |-> [name |-> "get_weather",
                                arguments |-> <<"{", "\"", "a", "\"", ":", "1", "}">>]]>>)
    /\ ret.ok
    /\ ret.v.content = <<ToolUse("call_1", "get_weather", EmptyObject),
                         ToolUse("call_1", "get_weather", ObjectA)>>

\* C16: a message of role user or assistant whose blocks are all Text blocks,
\* made flat and read back, gives a response whose text is the texts of the
\* original blocks joined by newline
C16_TextRoundTrip ==
    (/\ call.fn = "round_trip"
     /\ ret # Pending
     /\ call.message.role \in {"user", "assistant"}
     /\ \A k \in 1..Len(call.message.content) : call.message.content[k].type = "text")
    => /\ ret.ok
       /\ MessagesResponse_text(ret.v) =
             Join([k \in 1..Len(call.message.content) |-> call.message.content[k].text],
                  <<NL>>)

\* two Text blocks come back as one text with the newline between them
C16_Witness ==
    /\ call.fn = "round_trip"
    /\ call.message = [role |-> "user", content |-> <<Text(<<"a">>), Text(<<"b">>)>>]
    /\ ret # Pending
    /\ ret.ok
    /\ ret.v.content = <<Text(<<"a", NL, "b">>)>>
    /\ MessagesResponse_text(ret.v) = <<"a", NL, "b">>

----------------------------------------------------------------------------
(* Claims about anthropic_response_to_openai *)

Flattened == call.fn = "anthropic_response_to_openai" /\ ret # Pending

\* input + output as a number: the limbs of the sum with the carry on top
ExactSum(u) ==
    LET r == AddLimbs(u.input_tokens, u.output_tokens, 0)
    IN r.limbs \o <<r.carry>>

\* the choice and the usage of a response that was returned, block by block
ChoiceAndUsage ==
    LET texts == SelectSeq(call.resp.content, LAMBDA b : b.type = "text")
        thoughts == SelectSeq(call.resp.content, LAMBDA b : b.type = "thinking")
        uses == SelectSeq(call.resp.content, LAMBDA b : b.type = "tool_use")
        m == ret.choices[1].message
    IN /\ Len(ret.choices) = 1
       /\ ret.choices[1].index = Some(0)
       /\ m.role = Some("assistant")
       /\ m.content = IF texts = <<>> THEN None
                      ELSE Some(Join([k \in 1..Len(texts) |-> texts[k].text], <<>>))
       /\ m.reasoning_content =
             IF thoughts = <<>> THEN None
             ELSE Some(Join([k \in 1..Len(thoughts) |-> thoughts[k].thinking], <<>>))
       /\ IF uses = <<>> THEN m.tool_calls = None
          ELSE /\ m.tool_calls.tag = "Some"
               /\ Len(m.tool_calls.v) = Len(uses)
               /\ \A k \in 1..Len(uses) :
                     /\ m.tool_calls.v[k].id = uses[k].id
                     /\ m.tool_calls.v[k].function.name = uses[k].name
                     /\ uses[k].input # Unserializable =>
                           from_str(m.tool_calls.v[k].function.arguments)
                               = OkOf(uses[k].input)
       /\ IF call.resp.usage = None THEN ret.usage = None
          ELSE /\ ret.usage.tag = "Some"
               /\ ret.usage.v.prompt_tokens = call.resp.usage.v.input_tokens
               /\ ret.usage.v.completion_tokens = call.resp.usage.v.output_tokens
               /\ ret.usage.v.cache_creation_input_tokens
                     = call.resp.usage.v.cache_creation_input_tokens
               /\ ret.usage.v.cache_read_input_tokens
                     = call.resp.usage.v.cache_read_input_tokens

\* C17 (as stated): the response has exactly one choice, index 0, role
\* assistant, with the Text blocks joined in content, the Thinking blocks
\* joined in reasoning_content and the ToolUse blocks in tool_calls, each
\* absent without a block of its variant; usage maps input to prompt, output
\* to completion, total to their sum, cache counts unchanged
C17_OneChoiceAndUsage ==
    Flattened =>
        /\ ret # Panic
        /\ ChoiceAndUsage
        /\ call.resp.usage # None =>
              ret.usage.v.total_tokens \o <<0>> = ExactSum(call.resp.usage.v)

\* the part of C17 that holds: whenever input + output fits a u64 the
\* response is returned and is as C17 says
C17_WhenSumFits ==
    (Flattened
     /\ (call.resp.usage # None => ExactSum(call.resp.usage.v)[5] = 0))
    => /\ ret # Panic
       /\ ChoiceAndUsage
       /\ call.resp.usage # None =>
             ret.usage.v.total_tokens \o <<0>> = ExactSum(call.resp.usage.v)

----------------------------------------------------------------------------
(* convert/to_anthropic.rs                                                  *)
(*                                                                         *)
(* InboundContent is [c |-> "Text", t |-> text], [c |-> "Parts", parts |->  *)
(* <<...>>] or [c |-> "Null"]; an InboundContentPart is a Text block or      *)
(* [type |-> "image_url", image_url |-> [url |-> text]].  The body built is  *)
(* a record of its keys, Absent for a key that is not set.                  *)

S_data == <<"d", "a", "t", "a", ":">>
S_base64 == <<";", "b", "a", "s", "e", "6", "4">>

\* str::split_once(','): the position of the first comma, 0 for None
FirstComma(s) ==
    IF \E i \in 1..Len(s) : s[i] = ","
    THEN CHOOSE i \in 1..Len(s) : s[i] = "," /\ \A k \in 1..(i - 1) : s[k] # ","
    ELSE 0

parse_data_url(url) ==
    IF ~starts_with(url, S_data) THEN None
    ELSE LET rest == SubSeq(url, Len(S_data) + 1, Len(url))
             comma == FirstComma(rest)
             header == SubSeq(rest, 1, comma - 1)
         IN IF comma = 0 THEN None
            ELSE IF ~ends_with(header, S_base64) THEN None
            ELSE Some([media_type |-> SubSeq(header, 1, Len(header) - Len(S_base64)),
                       data |-> SubSeq(rest, comma + 1, Len(rest))])

\* the image block of an image_url part, or nothing
ImageBlocks(part) ==
    IF starts_with(part.image_url.url, S_data)
       /\ parse_data_url(part.image_url.url).tag = "Some"
    THEN <<[type |-> "image",
            source |-> [type |-> "base64",
                        media_type |-> parse_data_url(part.image_url.url).v.media_type,
                        data |-> parse_data_url(part.image_url.url).v.data]]>>
    ELSE <<>>

\* the blocks of the parts: a Text block per text part, an image block per
\* image part with a data URL that parses
RECURSIVE PartBlocks(_)
PartBlocks(parts) ==
    IF parts = <<>> THEN <<>>
    ELSE (IF Head(parts).type = "text" THEN <<Text(Head(parts).text)>>
          ELSE ImageBlocks(Head(parts))) \o PartBlocks(Tail(parts))

\* variant of SystemText: an empty text stands as one space
SystemText_padded(content) ==
    LET t == CASE content.c = "Text" -> content.t
               [] content.c = "Parts" ->
                     Join(TextsOf(content.parts), <<>>)
               [] OTHER -> <<>>
    IN IF t = <<>> THEN <<" ">> ELSE t

\* the text of a system message
SystemText(content) ==
    CASE content.c = "Text" -> content.t
      [] content.c = "Parts" ->
            Join(TextsOf(content.parts), <<>>)
      [] OTHER -> <<>>

\* the message pushed for a "tool" message
ToolMessage(msg) ==
    <<[role |-> "user",
       content |-> <<[type |-> "tool_result",
                      tool_use_id |-> IF msg.tool_call_id.tag = "Some"
                                      THEN msg.tool_call_id.v ELSE "",
                      content |-> IF msg.content.c = "Text" THEN msg.content.t
                                  ELSE <<>>]>>]>>

\* the message pushed for an "assistant" message, if any
AssistantTurn(msg) ==
    LET text_blocks ==
            CASE msg.content.c = "Text" /\ msg.content.t # <<>> -> <<Text(msg.content.t)>>
              [] msg.content.c = "Parts" -> PartBlocks(msg.content.parts)
              [] OTHER -> <<>>
        tcs == IF msg.tool_calls.tag = "Some" THEN msg.tool_calls.v ELSE <<>>
        content_blocks ==
            text_blocks \o
            [i \in 1..Len(tcs) |->
                LET parsed == from_str(tcs[i].function.arguments)
                IN ToolUse(tcs[i].id, tcs[i].function.name,
                           IF parsed.ok THEN parsed.v ELSE EmptyObject)]
    IN IF content_blocks # <<>>
       THEN <<[role |-> "assistant", content |-> content_blocks]>>
       ELSE <<>>

\* the message pushed for a message of any other role, if any
UserTurn(msg) ==
    LET content_blocks ==
            CASE msg.content.c = "Text" -> <<Text(msg.content.t)>>
              [] msg.content.c = "Parts" -> PartBlocks(msg.content.parts)
              [] OTHER -> <<Text(<<>>)>>
    IN IF content_blocks # <<>>
       THEN <<[role |-> "user", content |-> content_blocks]>>
       ELSE <<>>

\* the loop over req.messages: the system parts and the messages gathered
RECURSIVE InboundLoop(_)
InboundLoop(msgs) ==
    IF msgs = <<>> THEN [system_parts |-> <<>>, messages |-> <<>>]
    ELSE LET msg == Head(msgs)
             rest == InboundLoop(Tail(msgs))
         IN CASE msg.role = "system" ->
                    [system_parts |->
                         (IF SystemText(msg.content) # <<>>
                          THEN <<Text(SystemText(msg.content))>> ELSE <<>>)
                         \o rest.system_parts,
                     messages |-> rest.messages]
              [] msg.role = "tool" ->
                    [rest EXCEPT !.messages = ToolMessage(msg) \o @]
              [] msg.role = "assistant" ->
                    [rest EXCEPT !.messages = AssistantTurn(msg) \o @]
              [] OTHER ->
                    [rest EXCEPT !.messages = UserTurn(msg) \o @]

S_name == <<"n", "a", "m", "e">>
S_description == <<"d", "e", "s", "c", "r", "i", "p", "t", "i", "o", "n">>
S_parameters == <<"p", "a", "r", "a", "m", "e", "t", "e", "r", "s">>
S_function == <<"f", "u", "n", "c", "t", "i", "o", "n">>
S_input_schema == <<"i", "n", "p", "u", "t", "_", "s", "c", "h", "e", "m", "a">>
S_type == <<"t", "y", "p", "e">>
S_object == <<"o", "b", "j", "e", "c", "t">>
S_properties == <<"p", "r", "o", "p", "e", "r", "t", "i", "e", "s">>
S_unknown == <<"u", "n", "k", "n", "o", "w", "n">>

\* Value::get(key)
get(v, key) ==
    IF v.j = "obj" /\ key \in DOMAIN v.members THEN Some(v.members[key]) ELSE None

\* Option::unwrap_or
unwrap_or(o, default) == IF o.tag = "Some" THEN o.v ELSE default

\* the function object handed back as it is
openai_tool_to_anthropic_unwrap(tool) ==
    IF get(tool, S_function).tag = "Some" THEN get(tool, S_function).v ELSE tool

openai_tool_to_anthropic(tool) ==
    IF get(tool, S_function).tag = "Some"
    THEN LET function == get(tool, S_function).v
         IN [j |-> "obj",
             members |->
                 (S_name :> unwrap_or(get(function, S_name),
                                      [j |-> "str", chars |-> S_unknown]))
                 @@ (S_description :> unwrap_or(get(function, S_description),
                                                [j |-> "str", chars |-> <<>>]))
                 @@ (S_input_schema :>
                        unwrap_or(get(function, S_parameters),
                                  [j |-> "obj",
                                   members |->
                                       (S_type :> [j |-> "str", chars |-> S_object])
                                       @@ (S_properties :> EmptyObject)]))]
    ELSE tool

inbound_request_to_anthropic(req) ==
    LET gathered == InboundLoop(req.messages)
    IN [messages |-> gathered.messages,
        model |-> IF req.model.tag = "Some"
                  THEN [k |-> "str", s |-> req.model.v] ELSE Absent,
        max_tokens |-> IF req.max_tokens.tag = "Some"
                       THEN [k |-> "num", n |-> req.max_tokens.v] ELSE Absent,
        temperature |-> IF req.temperature.tag = "Some"
                        THEN [k |-> "num", n |-> req.temperature.v] ELSE Absent,
        system |-> IF gathered.system_parts # <<>>
                   THEN [k |-> "arr", a |-> gathered.system_parts] ELSE Absent,
        tools |-> IF req.tools.tag = "Some"
                  THEN [k |-> "arr",
                        a |-> [i \in 1..Len(req.tools.v) |->
                                  openai_tool_to_anthropic(req.tools.v[i])]]
                  ELSE Absent]

----------------------------------------------------------------------------
(* The requests inbound_request_to_anthropic is applied to *)

MaxParts == 2       \* parts in an array content

DataUrls ==
    { S_data \o <<"i", "/", "p">> \o S_base64 \o <<",", "Q", "Q">>,
      S_data \o <<"i", "/", "p">> \o S_base64 \o <<",", "Q", ",", "Q">>,
      S_data \o <<"i", "/", "p", ",", "Q", "Q">>,
      S_data \o <<"i", "/", "p">> \o S_base64,
      <<"h", "t", "t", "p", ":", "/", "/", "x">> }

ContentParts ==
    {Text(<<>>), Text(<<"b">>)}
    \cup {[type |-> "image_url", image_url |-> [url |-> u]] : u \in DataUrls}

InboundContents ==
    {[c |-> "Null"], [c |-> "Text", t |-> <<>>], [c |-> "Text", t |-> <<"a">>]}
    \cup {[c |-> "Parts", parts |-> p] : p \in ArraysOf(ContentParts, MaxParts)}

InboundToolCall(arguments) ==
    [id |-> "call_1", function |-> [name |-> "get_weather", arguments |-> arguments]]

InboundToolCalls ==
    {None, Some(<<>>),
     Some(<<InboundToolCall(<<"{", "\"", "a", "\"", ":", "1", "}">>)>>),
     Some(<<InboundToolCall(<<"{", "n", "o", "t", " ", "j", "s", "o", "n">>),
            InboundToolCall(<<"{", "}">>)>>)}

InboundRoles == {"system", "tool", "assistant", "user", "developer"}

InboundMessages ==
    [role : InboundRoles, content : InboundContents, tool_calls : InboundToolCalls,
     tool_call_id : {None, Some("call_1")}]

\* short messages, for conversations of several
ShortInbound ==
    [role : InboundRoles,
     content : {[c |-> "Null"], [c |-> "Text", t |-> <<"a">>]},
     tool_calls : {None}, tool_call_id : {Some("call_1")}]

FunctionTool ==
    [j |-> "obj",
     members |->
         (S_type :> [j |-> "str", chars |-> S_function])
         @@ (S_function :>
                [j |-> "obj",
                 members |-> (S_name :> [j |-> "str", chars |-> <<"f">>])
                             @@ (S_parameters :> ObjectA)])]

ToolValues ==
    {FunctionTool,
     [j |-> "obj", members |-> (S_function :> [j |-> "str", chars |-> <<"f">>])],
     [j |-> "obj", members |-> (S_name :> [j |-> "str", chars |-> <<"f">>])
                               @@ (S_input_schema :> EmptyObject)],
     [j |-> "str", chars |-> <<"f">>]}

InboundRequests ==
    [model : {None, Some("gpt-4o")},
     messages : {<<m>> : m \in InboundMessages} \cup ArraysOf(ShortInbound, MaxConv),
     max_tokens : {None, Some(1024)},
     temperature : {None},
     tools : {None} \cup {Some(<<t>>) : t \in ToolValues}]

InboundCalls == [fn : {"inbound_request_to_anthropic"}, req : InboundRequests]

InitInbound ==
    /\ call \in InboundCalls
    /\ ret = Pending
    /\ orig = EmptyBody
    /\ prev = EmptyBody
    /\ body = EmptyBody
    /\ calls = 0
    /\ Quiet

InboundRequestToAnthropic ==
    /\ call.fn = "inbound_request_to_anthropic"
    /\ ret = Pending
    /\ ret' = inbound_request_to_anthropic(call.req)
    /\ UNCHANGED <<call, orig, prev, body, calls, others>>

NextInbound == InboundRequestToAnthropic

SpecInbound == InitInbound /\ [][NextInbound]_vars

----------------------------------------------------------------------------
(* Claims about inbound_request_to_anthropic *)

Decoded == call.fn = "inbound_request_to_anthropic" /\ ret # Pending

\* an empty turn: no content blocks, or an empty Text block as only content
EmptyTurn(m) == m.content = <<>> \/ m.content = <<Text(<<>>)>>

EmptyTurns == {k \in 1..Len(ret.messages) : EmptyTurn(ret.messages[k])}

\* the input messages taken as user messages (any role but "system", "tool"
\* and "assistant") whose content is null
NullUsers ==
    {i \in 1..Len(call.req.messages) :
        /\ call.req.messages[i].role \notin {"system", "tool", "assistant"}
        /\ call.req.messages[i].content.c = "Null"}

\* C18 (as stated): the only empty turns in the output are the ones of the
\* user messages with null content, each a user message of exactly one empty
\* Text block
C18_NoEmptyTurns ==
    Decoded =>
        /\ Cardinality(EmptyTurns) <= Cardinality(NullUsers)
        /\ \A k \in EmptyTurns :
              ret.messages[k] = [role |-> "user", content |-> <<Text(<<>>)>>]

\* the part of C18 that holds: no output message is without content blocks,
\* and a null-content user message alone becomes one empty Text block
C18_NoBlocklessMessage ==
    Decoded =>
        /\ \A k \in 1..Len(ret.messages) : ret.messages[k].content # <<>>
        /\ (Len(call.req.messages) = 1 /\ NullUsers = {1}) =>
              ret.messages = <<[role |-> "user", content |-> <<Text(<<>>)>>]>>

\* the text of a content: the string, or the text parts of the array joined
TextOfContent(content) ==
    CASE content.c = "Text" -> content.t
      [] content.c = "Parts" ->
            LET texts == SelectSeq(content.parts, LAMBDA p : p.type = "text")
            IN Join([k \in 1..Len(texts) |-> texts[k].text], <<>>)
      [] OTHER -> <<>>

HasToolResult(m) == \E k \in 1..Len(m.content) : m.content[k].type = "tool_result"

StringOnly(content) == IF content.c = "Text" THEN content.t ELSE <<>>

\* the output messages that stand for the tool-role input messages; the text
\* of a content is its string, and with parts_too also the text of its parts
ToolResultsCarried(parts_too) ==
    LET ins == SelectSeq(call.req.messages, LAMBDA m : m.role = "tool")
        outs == SelectSeq(ret.messages, HasToolResult)
    IN /\ \A k \in 1..Len(ret.messages) :
             HasToolResult(ret.messages[k]) => ret.messages[k].role = "user"
       /\ Len(outs) = Len(ins)
       /\ \A k \in 1..Len(ins) :
             outs[k] =
                 [role |-> "user",
                  content |-> <<[type |-> "tool_result",
                                 tool_use_id |-> IF ins[k].tool_call_id = None THEN ""
                                                 ELSE ins[k].tool_call_id.v,
                                 content |-> IF parts_too
                                             THEN TextOfContent(ins[k].content)
                                             ELSE StringOnly(ins[k].content)]>>]

\* C19 (as stated): every tool_result block sits in a "user" message, and
\* each tool-role input message has become one user message of exactly one
\* tool_result block with the input's tool_call_id as tool_use_id and its
\* text as content
C19_ToolResults == Decoded => ToolResultsCarried(TRUE)

\* the part of C19 that holds: the same with the text taken from a string
\* content only, a content of parts or null giving the empty text
C19_StringContentOnly == Decoded => ToolResultsCarried(FALSE)

\* the output messages of a request of the one message m
Alone(m) == inbound_request_to_anthropic([call.req EXCEPT !.messages = <<m>>]).messages

RECURSIVE EachAlone(_)
EachAlone(msgs) ==
    IF msgs = <<>> THEN <<>>
    ELSE (IF Head(msgs).role = "system" THEN <<>> ELSE Alone(Head(msgs)))
         \o EachAlone(Tail(msgs))

\* C20: no output message has the role "system"; the output messages are
\* those of the other input messages, in their order; the system field holds
\* the texts of the system messages that have a non-empty text, in order,
\* and is absent exactly when there is none
C20_SystemExtracted ==
    Decoded =>
        LET sys == SelectSeq(call.req.messages, LAMBDA m : m.role = "system")
            full == SelectSeq(sys, LAMBDA m : TextOfContent(m.content) # <<>>)
        IN /\ \A k \in 1..Len(ret.messages) : ret.messages[k].role \in {"user", "assistant"}
           /\ ret.messages = EachAlone(call.req.messages)
           /\ IF full = <<>> THEN ret.system = Absent
              ELSE ret.system = [k |-> "arr",
                                 a |-> [i \in 1..Len(full) |->
                                           Text(TextOfContent(full[i].content))]]

\* a system message with text before a user message: the text is in the
\* system field, the user message is the only message
C20_Witness ==
    /\ Decoded
    /\ Len(call.req.messages) = 2
    /\ call.req.messages[1].role = "system"
    /\ call.req.messages[1].content = [c |-> "Text", t |-> <<"a">>]
    /\ call.req.messages[2].role = "user"
    /\ call.req.messages[2].content = [c |-> "Text", t |-> <<"a">>]
    /\ ret.system = [k |-> "arr", a |-> <<Text(<<"a">>)>>]
    /\ ret.messages = <<[role |-> "user", content |-> <<Text(<<"a">>)>>]>>

\* ---------------------------------------------------------------------------
\* convert/tool_names.rs: the mcp_ prefix on tool names
\* ---------------------------------------------------------------------------

S_mcp == <<"m", "c", "p", "_">>
S_tools == <<"t", "o", "o", "l", "s">>
S_tool == <<"t", "o", "o", "l">>
S_tool_choice == <<"t", "o", "o", "l", "_", "c", "h", "o", "i", "c", "e">>
S_messages == <<"m", "e", "s", "s", "a", "g", "e", "s">>
S_content == <<"c", "o", "n", "t", "e", "n", "t">>
S_tool_use == <<"t", "o", "o", "l", "_", "u", "s", "e">>

\* Value::String
String(chars) == [j |-> "str", chars |-> chars]

\* Option<&Value>::and_then(|v| v.as_str())
and_then_as_str(o) ==
    IF o.tag = "Some" /\ o.v.j = "str" THEN Some(o.v.chars) ELSE None

add_mcp_prefix(name) ==
    IF starts_with(name, S_mcp) THEN name ELSE S_mcp \o name

strip_mcp_prefix(name) ==
    IF starts_with(name, S_mcp) THEN SubSeq(name, Len(S_mcp) + 1, Len(name)) ELSE name

\* obj.insert("name", Value::String(name)) on a value that has the key
InsertName(v, name) == [v EXCEPT !.members[S_name] = String(name)]

\* every tool definition renamed, the typed ones too
RequestTool_all(tool) ==
    LET name == and_then_as_str(get(tool, S_name))
    IN IF name.tag = "Some" THEN InsertName(tool, add_mcp_prefix(name.v)) ELSE tool

\* one iteration of the loop over the tools array
RequestTool(tool) ==
    LET type == and_then_as_str(get(tool, S_type))
        name == and_then_as_str(get(tool, S_name))
    IN IF type.tag = "Some" /\ type.v # <<>>
       THEN tool
       ELSE IF name.tag = "Some"
            THEN InsertName(tool, add_mcp_prefix(name.v))
            ELSE tool

\* the tool_choice step, on the value under the tool_choice key
RequestToolChoice(tool_choice) ==
    LET type == and_then_as_str(get(tool_choice, S_type))
        name == and_then_as_str(get(tool_choice, S_name))
    IN IF /\ type = Some(S_tool)
          /\ name.tag = "Some"
          /\ name.v # <<>>
          /\ ~starts_with(name.v, S_mcp)
       THEN InsertName(tool_choice, add_mcp_prefix(name.v))
       ELSE tool_choice

\* one iteration of the loop over a content array
RequestBlock(block) ==
    LET name == and_then_as_str(get(block, S_name))
    IN IF and_then_as_str(get(block, S_type)) = Some(S_tool_use) /\ name.tag = "Some"
       THEN InsertName(block, add_mcp_prefix(name.v))
       ELSE block

ResponseBlock(block) ==
    LET name == and_then_as_str(get(block, S_name))
    IN IF and_then_as_str(get(block, S_type)) = Some(S_tool_use) /\ name.tag = "Some"
       THEN InsertName(block, strip_mcp_prefix(name.v))
       ELSE block

\* one iteration of the loop over the messages array
RequestMessage(msg) ==
    LET content == get(msg, S_content)
    IN IF content.tag = "Some" /\ content.v.j = "arr"
       THEN [msg EXCEPT !.members[S_content] =
                [content.v EXCEPT !.items =
                    [i \in 1..Len(content.v.items) |-> RequestBlock(content.v.items[i])]]]
       ELSE msg

transform_request_tool_names(b) ==
    IF b.j # "obj"
    THEN b
    ELSE LET tools == get(b, S_tools)
             b1 == IF tools.tag = "Some" /\ tools.v.j = "arr"
                   THEN [b EXCEPT !.members[S_tools] =
                            [tools.v EXCEPT !.items =
                                [i \in 1..Len(tools.v.items) |->
                                    RequestTool(tools.v.items[i])]]]
                   ELSE b
             tool_choice == get(b1, S_tool_choice)
             b2 == IF tool_choice.tag = "Some"
                   THEN [b1 EXCEPT !.members[S_tool_choice] =
                            RequestToolChoice(tool_choice.v)]
                   ELSE b1
             messages == get(b2, S_messages)
         IN IF messages.tag = "Some" /\ messages.v.j = "arr"
            THEN [b2 EXCEPT !.members[S_messages] =
                     [messages.v EXCEPT !.items =
                         [i \in 1..Len(messages.v.items) |->
                             RequestMessage(messages.v.items[i])]]]
            ELSE b2

transform_response_tool_names(b) ==
    LET content == get(b, S_content)
    IN IF content.tag = "Some" /\ content.v.j = "arr"
       THEN [b EXCEPT !.members[S_content] =
                [content.v EXCEPT !.items =
                    [i \in 1..Len(content.v.items) |-> ResponseBlock(content.v.items[i])]]]
       ELSE b

\* ---------------------------------------------------------------------------
\* Inputs of the tool helpers: tool values, names and JSON bodies
\* ---------------------------------------------------------------------------

MaxToolDefs == 1
MaxUse == 1

S_role == <<"r", "o", "l", "e">>
S_user == <<"u", "s", "e", "r">>
S_text == <<"t", "e", "x", "t">>
S_model == <<"m", "o", "d", "e", "l">>
S_bash == <<"b", "a", "s", "h", "_", "2", "0", "2", "5", "0", "1", "2", "4">>

\* a JSON object of the present members of opts, a sequence of <<key, Option>>
ObjectOf(opts) ==
    LET present == {i \in DOMAIN opts : opts[i][2].tag = "Some"}
    IN [j |-> "obj",
        members |-> [k \in {opts[i][1] : i \in present} |->
                        opts[CHOOSE i \in present : opts[i][1] = k][2].v]]

Number7 == [j |-> "num", digits |-> <<"7">>]

ToolSamples ==
    ToolValues
    \cup {ObjectOf(<<<<S_function, Some([j |-> "null"])>>>>),
          ObjectOf(<<<<S_function, Some(FunctionTool)>>,
                     <<S_name, Some(String(<<"g">>))>>>>),
          ObjectOf(<<<<S_function,
                       Some(ObjectOf(<<<<S_name, Some(String(<<"f">>))>>,
                                       <<S_description, Some(String(<<"d">>))>>,
                                       <<S_function, Some(String(<<"g">>))>>>>))>>>>),
          [j |-> "arr", items |-> <<FunctionTool>>],
          EmptyObject}

NameSamples ==
    {<<>>, <<"a">>, <<"m", "c", "p">>, S_mcp, S_mcp \o <<"a">>,
     S_mcp \o S_mcp \o <<"a">>, <<"M", "C", "P", "_", "a">>,
     <<"a">> \o S_mcp, S_bash}

TypeOptions == {None, Some(String(<<>>)), Some(String(S_bash)), Some(Number7)}
NameOptions ==
    {None, Some(String(<<"a">>)), Some(String(S_mcp \o <<"a">>)), Some(Number7)}

ToolDefs ==
    {ObjectOf(<<<<S_type, t>>, <<S_name, n>>>>) : t \in TypeOptions, n \in NameOptions}
    \cup {String(<<"a">>)}

ToolChoices ==
    {ObjectOf(<<<<S_type, Some(String(t))>>, <<S_name, n>>>>) :
        t \in {S_tool, <<"a", "n", "y">>},
        n \in {None, Some(String(<<>>)), Some(String(<<"a">>)),
               Some(String(S_mcp \o <<"a">>))}}
    \cup {String(S_tool)}

NameBlocks ==
    {ObjectOf(<<<<S_type, Some(String(t))>>, <<S_name, n>>>>) :
        t \in {S_tool_use, S_text}, n \in NameOptions}

ContentValues ==
    {String(<<"h", "i">>)}
    \cup {[j |-> "arr", items |-> bs] : bs \in ArraysOf(NameBlocks, MaxUse)}

MessageValues ==
    {ObjectOf(<<<<S_role, Some(String(S_user))>>, <<S_content, Some(c)>>>>) :
        c \in ContentValues}
    \cup {String(<<"h", "i">>)}

RequestBodies ==
    {ObjectOf(<<<<S_model, Some(String(<<"m">>))>>, <<S_tools, t>>,
                <<S_tool_choice, c>>, <<S_messages, m>>>>) :
        t \in {None, Some(Number7)}
              \cup {Some([j |-> "arr", items |-> ts]) : ts \in ArraysOf(ToolDefs, MaxToolDefs)},
        c \in {None} \cup {Some(tc) : tc \in ToolChoices},
        m \in {None, Some(Number7)}
              \cup {Some([j |-> "arr", items |-> <<msg>>]) : msg \in MessageValues}}
    \cup {Number7, [j |-> "arr", items |-> <<>>]}

ResponseBodies ==
    {ObjectOf(<<<<S_role, Some(String(S_user))>>, <<S_content, c>>>>) :
        c \in {None} \cup {Some(v) : v \in ContentValues}}
    \cup {Number7}

ToolCalls ==
    [fn : {"openai_tool_to_anthropic"}, tool : ToolSamples]
    \cup [fn : {"add_mcp_prefix", "strip_mcp_prefix", "tool_name_round_trip"},
          name : NameSamples]
    \cup [fn : {"transform_request_tool_names"}, body : RequestBodies]
    \cup [fn : {"transform_response_tool_names"}, body : ResponseBodies]

InitTools ==
    /\ call \in ToolCalls
    /\ ret = Pending
    /\ orig = EmptyBody
    /\ prev = EmptyBody
    /\ body = EmptyBody
    /\ calls = 0
    /\ Quiet

\* the conversion of one tool definition, applied once and to its own result
OpenaiToolToAnthropic ==
    /\ call.fn = "openai_tool_to_anthropic"
    /\ ret = Pending
    /\ ret' = [once |-> openai_tool_to_anthropic(call.tool),
               twice |-> openai_tool_to_anthropic(openai_tool_to_anthropic(call.tool))]
    /\ UNCHANGED <<call, orig, prev, body, calls, others>>

AddMcpPrefix ==
    /\ call.fn = "add_mcp_prefix"
    /\ ret = Pending
    /\ ret' = [once |-> add_mcp_prefix(call.name),
               twice |-> add_mcp_prefix(add_mcp_prefix(call.name))]
    /\ UNCHANGED <<call, orig, prev, body, calls, others>>

StripMcpPrefix ==
    /\ call.fn = "strip_mcp_prefix"
    /\ ret = Pending
    /\ ret' = [once |-> strip_mcp_prefix(call.name),
               twice |-> strip_mcp_prefix(strip_mcp_prefix(call.name))]
    /\ UNCHANGED <<call, orig, prev, body, calls, others>>

TransformRequestToolNames ==
    /\ call.fn = "transform_request_tool_names"
    /\ ret = Pending
    /\ ret' = [body |-> transform_request_tool_names(call.body)]
    /\ UNCHANGED <<call, orig, prev, body, calls, others>>

TransformResponseToolNames ==
    /\ call.fn = "transform_response_tool_names"
    /\ ret = Pending
    /\ ret' = [body |-> transform_response_tool_names(call.body)]
    /\ UNCHANGED <<call, orig, prev, body, calls, others>>

\* a tool the caller defines under call.name: the request path prefixes the
\* definition, the model answers with a tool_use block under the name it was
\* sent, and the response path strips that block's name
ToolNameRoundTrip ==
    /\ call.fn = "tool_name_round_trip"
    /\ ret = Pending
    /\ LET request == transform_request_tool_names(
                          ObjectOf(<<<<S_tools,
                                       Some([j |-> "arr",
                                             items |-> <<ObjectOf(<<<<S_name,
                                                 Some(String(call.name))>>>>)>>])>>>>))
           sent == request.members[S_tools].items[1].members[S_name]
           response == transform_response_tool_names(
                           ObjectOf(<<<<S_content,
                                        Some([j |-> "arr",
                                              items |-> <<ObjectOf(<<
                                                  <<S_type, Some(String(S_tool_use))>>,
                                                  <<S_name, Some(sent)>>>>)>>])>>>>))
       IN ret' = [sent |-> sent.chars,
                  name |-> response.members[S_content].items[1].members[S_name].chars]
    /\ UNCHANGED <<call, orig, prev, body, calls, others>>

NextTools ==
    \/ OpenaiToolToAnthropic
    \/ AddMcpPrefix
    \/ StripMcpPrefix
    \/ TransformRequestToolNames
    \/ TransformResponseToolNames
    \/ ToolNameRoundTrip

SpecTools == InitTools /\ [][NextTools]_vars

\* ---------------------------------------------------------------------------
\* Claims on the tool helpers
\* ---------------------------------------------------------------------------

Applied(fn) == call.fn = fn /\ ret # Pending

\* C21: openai_tool_to_anthropic returns a tool value without a function key
\* unchanged, and applying it to its own result changes nothing.
C21_ToolIdempotent ==
    Applied("openai_tool_to_anthropic") =>
        /\ get(call.tool, S_function) = None => ret.once = call.tool
        /\ ret.twice = ret.once

C21_Witness ==
    /\ Applied("openai_tool_to_anthropic")
    /\ get(call.tool, S_function).tag = "Some"
    /\ get(get(call.tool, S_function).v, S_function).tag = "Some"
    /\ ret.once # call.tool

\* C22: add_mcp_prefix and strip_mcp_prefix are both idempotent: a second
\* application returns what the first returned.
C22_PrefixIdempotent ==
    (Applied("add_mcp_prefix") \/ Applied("strip_mcp_prefix")) => ret.twice = ret.once

NameOf(v) == and_then_as_str(get(v, S_name))
TypeOf(v) == and_then_as_str(get(v, S_type))
BuiltIn(tool) == TypeOf(tool).tag = "Some" /\ TypeOf(tool).v # <<>>
IsArray(o) == o.tag = "Some" /\ o.v.j = "arr"

\* after is before with nothing but its name changed, to the prefixed name
Renamed(before, after) ==
    /\ NameOf(before).tag = "Some"
    /\ starts_with(NameOf(after).v, S_mcp)
    /\ NameOf(after).v \in {NameOf(before).v, S_mcp \o NameOf(before).v}
    /\ after.j = "obj"
    /\ DOMAIN after.members = DOMAIN before.members
    /\ \A k \in DOMAIN before.members \ {S_name} : after.members[k] = before.members[k]

ToolsFrame(before, after) ==
    IF IsArray(before)
    THEN /\ IsArray(after)
         /\ Len(after.v.items) = Len(before.v.items)
         /\ \A i \in 1..Len(before.v.items) :
                LET tool == before.v.items[i]
                IN IF ~BuiltIn(tool) /\ NameOf(tool).tag = "Some"
                   THEN Renamed(tool, after.v.items[i])
                   ELSE after.v.items[i] = tool
    ELSE after = before

ToolChoiceFrame(before, after) ==
    \/ after = before
    \/ /\ before.tag = "Some"
       /\ TypeOf(before.v) = Some(S_tool)
       /\ after.tag = "Some"
       /\ Renamed(before.v, after.v)

ContentFrame(before, after) ==
    IF IsArray(before)
    THEN /\ IsArray(after)
         /\ Len(after.v.items) = Len(before.v.items)
         /\ \A i \in 1..Len(before.v.items) :
                LET block == before.v.items[i]
                IN IF TypeOf(block) = Some(S_tool_use) /\ NameOf(block).tag = "Some"
                   THEN Renamed(block, after.v.items[i])
                   ELSE after.v.items[i] = block
    ELSE after = before

MessagesFrame(before, after) ==
    IF IsArray(before)
    THEN /\ IsArray(after)
         /\ Len(after.v.items) = Len(before.v.items)
         /\ \A i \in 1..Len(before.v.items) :
                LET msg == before.v.items[i]
                    out == after.v.items[i]
                IN IF msg.j = "obj"
                   THEN /\ out.j = "obj"
                        /\ DOMAIN out.members = DOMAIN msg.members
                        /\ \A k \in DOMAIN msg.members \ {S_content} :
                               out.members[k] = msg.members[k]
                        /\ ContentFrame(get(msg, S_content), get(out, S_content))
                   ELSE out = msg
    ELSE after = before

\* C23: transform_request_tool_names leaves a tool definition with a non-empty
\* type unchanged, prefixes the name of every other tool definition, renames
\* tool_choice.name only when tool_choice.type is "tool", prefixes the name of
\* every tool_use block of the messages, and changes nothing else in the body.
C23_RequestFrame ==
    Applied("transform_request_tool_names") =>
        IF call.body.j = "obj"
        THEN /\ ret.body.j = "obj"
             /\ DOMAIN ret.body.members = DOMAIN call.body.members
             /\ \A k \in DOMAIN call.body.members \ {S_tools, S_tool_choice, S_messages} :
                    ret.body.members[k] = call.body.members[k]
             /\ ToolsFrame(get(call.body, S_tools), get(ret.body, S_tools))
             /\ ToolChoiceFrame(get(call.body, S_tool_choice), get(ret.body, S_tool_choice))
             /\ MessagesFrame(get(call.body, S_messages), get(ret.body, S_messages))
        ELSE ret.body = call.body

C23_Witness ==
    /\ Applied("transform_request_tool_names")
    /\ call.body.j = "obj"
    /\ IsArray(get(call.body, S_tools))
    /\ \E i \in 1..Len(call.body.members[S_tools].items) :
           LET tool == call.body.members[S_tools].items[i]
           IN BuiltIn(tool) /\ NameOf(tool) = Some(<<"a">>)
    /\ get(ret.body, S_tool_choice) # get(call.body, S_tool_choice)
    /\ get(ret.body, S_messages) # get(call.body, S_messages)

\* the names of the tools defined in the tools array of a body
Defined(b) ==
    IF IsArray(get(b, S_tools))
    THEN LET tools == b.members[S_tools].items
         IN {NameOf(tools[i]).v : i \in {n \in DOMAIN tools : NameOf(tools[n]).tag = "Some"}}
    ELSE {}

\* C28: a tool_choice of type "tool" or a tool_use block that names a tool
\* defined in the tools array before transform_request_tool_names still names a
\* tool defined in the tools array afterwards.
C28_ReferencesConsistent ==
    (Applied("transform_request_tool_names") /\ call.body.j = "obj") =>
        /\ LET tc == get(call.body, S_tool_choice)
           IN (/\ tc.tag = "Some"
               /\ TypeOf(tc.v) = Some(S_tool)
               /\ NameOf(tc.v).tag = "Some"
               /\ NameOf(tc.v).v \in Defined(call.body))
              => NameOf(ret.body.members[S_tool_choice]).v \in Defined(ret.body)
        /\ IsArray(get(call.body, S_messages)) =>
              \A m \in DOMAIN call.body.members[S_messages].items :
                  LET msg == call.body.members[S_messages].items[m]
                      out == ret.body.members[S_messages].items[m]
                  IN IsArray(get(msg, S_content)) =>
                        \A i \in DOMAIN msg.members[S_content].items :
                            LET block == msg.members[S_content].items[i]
                            IN (/\ TypeOf(block) = Some(S_tool_use)
                                /\ NameOf(block).tag = "Some"
                                /\ NameOf(block).v \in Defined(call.body))
                               => NameOf(out.members[S_content].items[i]).v
                                      \in Defined(ret.body)

\* C29: a name prefixed on the request path and stripped on the response path
\* comes back as the caller's name: strip_mcp_prefix(add_mcp_prefix(x)) = x.
C29_StripUndoesAdd ==
    Applied("tool_name_round_trip") => ret.name = call.name

\* ---------------------------------------------------------------------------
\* types/common.rs: StopReason and the two wire vocabularies
\* ---------------------------------------------------------------------------

\* the OpenAI finish reason "stop" accepted as well
from_anthropic_either(s) ==
    CASE s \in {"end_turn", "stop"} -> EndTurn
      [] s = "tool_use" -> StopToolUse
      [] s = "max_tokens" -> MaxTokens
      [] OTHER -> Other(s)

from_anthropic(s) ==
    CASE s = "end_turn" -> EndTurn
      [] s = "tool_use" -> StopToolUse
      [] s = "max_tokens" -> MaxTokens
      [] OTHER -> Other(s)

to_anthropic(r) ==
    CASE r = EndTurn -> "end_turn"
      [] r = StopToolUse -> "tool_use"
      [] r = MaxTokens -> "max_tokens"
      [] OTHER -> r.s

RawStrings ==
    {"end_turn", "tool_use", "max_tokens", "stop", "tool_calls", "length",
     "", "END_TURN", "End_Turn", "endturn", "max_token", "tool_use ",
     "stop_sequence", "pause_turn", "refusal", "content_filter",
     "function_call", "Stop", "STOP", "other"}

AllStopReasons == {EndTurn, StopToolUse, MaxTokens} \cup {Other(s) : s \in RawStrings}

StopReasonCalls ==
    [fn : {"from_anthropic", "from_openai"}, s : RawStrings]
    \cup [fn : {"to_anthropic", "to_openai"}, r : AllStopReasons]

InitStopReason ==
    /\ call \in StopReasonCalls
    /\ ret = Pending
    /\ orig = EmptyBody
    /\ prev = EmptyBody
    /\ body = EmptyBody
    /\ calls = 0
    /\ Quiet

FromAnthropic ==
    /\ call.fn = "from_anthropic"
    /\ ret = Pending
    /\ ret' = [r |-> from_anthropic(call.s)]
    /\ UNCHANGED <<call, orig, prev, body, calls, others>>

FromOpenai ==
    /\ call.fn = "from_openai"
    /\ ret = Pending
    /\ ret' = [r |-> from_openai(call.s)]
    /\ UNCHANGED <<call, orig, prev, body, calls, others>>

\* the wire string of a stop reason, and the stop reason read back from it
\* (Serialize writes to_anthropic, Deserialize reads with from_anthropic)
ToAnthropic ==
    /\ call.fn = "to_anthropic"
    /\ ret = Pending
    /\ ret' = [s |-> to_anthropic(call.r), back |-> from_anthropic(to_anthropic(call.r))]
    /\ UNCHANGED <<call, orig, prev, body, calls, others>>

ToOpenai ==
    /\ call.fn = "to_openai"
    /\ ret = Pending
    /\ ret' = [s |-> to_openai(call.r), back |-> from_openai(to_openai(call.r))]
    /\ UNCHANGED <<call, orig, prev, body, calls, others>>

NextStopReason == FromAnthropic \/ FromOpenai \/ ToAnthropic \/ ToOpenai

SpecStopReason == InitStopReason /\ [][NextStopReason]_vars

\* the spec's table: wire string, normalized value
AnthropicTable ==
    {<<"end_turn", EndTurn>>, <<"tool_use", StopToolUse>>, <<"max_tokens", MaxTokens>>}
OpenaiTable ==
    {<<"stop", EndTurn>>, <<"tool_calls", StopToolUse>>, <<"length", MaxTokens>>}

Parsed(table, s) ==
    IF \E p \in table : p[1] = s
    THEN (CHOOSE p \in table : p[1] = s)[2]
    ELSE Other(s)

Written(table, r) ==
    IF r.tag = "Other" THEN r.s ELSE (CHOOSE p \in table : p[2] = r)[1]

\* C24: the stop-reason mapping is total in both directions and follows the
\* table: the three strings of each vocabulary map to EndTurn, ToolUse and
\* MaxTokens, any other string s to Other(s), and back the three values map to
\* the table's strings and Other(s) to s.
C24_StopReasonTable ==
    /\ Applied("from_anthropic") => ret.r = Parsed(AnthropicTable, call.s)
    /\ Applied("from_openai") => ret.r = Parsed(OpenaiTable, call.s)
    /\ Applied("to_anthropic") => ret.s = Written(AnthropicTable, call.r)
    /\ Applied("to_openai") => ret.s = Written(OpenaiTable, call.r)

C24_Witness ==
    /\ Applied("from_anthropic")
    /\ call.s = "stop"
    /\ ret.r = Other("stop")

\* C25: Other(s) comes back as Other(s) from each wire vocabulary, for every
\* raw string s.
C25_OtherRoundTrip ==
    ((Applied("to_anthropic") \/ Applied("to_openai")) /\ call.r.tag = "Other")
        => ret.back = call.r

\* ---------------------------------------------------------------------------
\* The layout of the output of messages_to_openai
\* ---------------------------------------------------------------------------

\* C30: the output of messages_to_openai is the optional system message and
\* then, for each input message in order, its flat messages: one for an
\* assistant message, one tool message per ToolResult block of a user message
\* that has any, one user message for any other user message (an empty one
\* included), none for any other role; the output has no other element.
C30_OrderPreserving ==
    Converted =>
        /\ FlatLayout
        /\ call.system.tag = "Some" =>
              /\ ret.out[1].role = "system"
              /\ ret.out[1].content = Some(call.system.v)
        /\ \A i \in 1..Len(call.messages) :
              LET m == call.messages[i]
                  flat == FlatOf(i)
              IN /\ flat = messages_to_openai(None, <<m>>)
                 /\ Len(flat) = (CASE m.role = "assistant" -> 1
                                   [] m.role = "user" /\ ResultsOf(m) # <<>> ->
                                          Len(ResultsOf(m))
                                   [] m.role = "user" /\ ResultsOf(m) = <<>> -> 1
                                   [] OTHER -> 0)
                 /\ \A k \in 1..Len(flat) :
                        flat[k].role = (IF m.role = "assistant" THEN "assistant"
                                        ELSE IF ResultsOf(m) # <<>> THEN "tool"
                                        ELSE "user")

\* a system prompt, a message of a role that is dropped, and an empty user
\* message: the output is the system message and one user message
C30_Witness ==
    /\ Converted
    /\ call.system.tag = "Some"
    /\ Len(call.messages) = 2
    /\ call.messages[1].role = "system"
    /\ call.messages[2].role = "user"
    /\ call.messages[2].content = <<>>
    /\ Len(ret.out) = 2
    /\ ret.out[2].role = "user"
    /\ ret.out[2].content = Some(<<>>)

\* ---------------------------------------------------------------------------
\* The conversion functions called twice on the same arguments
\* ---------------------------------------------------------------------------

PureCalls ==
    [fn : {"messages_to_openai"}, system : {None, Some(<<"s">>)},
     messages : {<<m>> : m \in ShortMessages}]
    \cup [fn : {"response_to_anthropic"},
          resp : [id : {Some("chatcmpl-1")}, object : {None}, created : {None},
                  model : {Some("gpt-4o")},
                  choices : {<<>>} \cup {<<c>> : c \in {x \in Choices :
                                                          x.message.tool_calls = None}},
                  usage : ResponseUsages]]
    \cup [fn : {"anthropic_response_to_openai"},
          resp : [id : {Some("msg_1")}, model : {Some("claude-sonnet-4-5")},
                  content : {<<>>, <<Text(<<"a">>)>>}, stop_reason : StopReasons,
                  usage : {None, Some([input_tokens |-> U64_MAX,
                                       output_tokens |-> <<1, 0, 0, 0>>,
                                       cache_creation_input_tokens |-> None,
                                       cache_read_input_tokens |-> None])}],
          overflow_checks : BOOLEAN]
    \cup [fn : {"inbound_request_to_anthropic"},
          req : [model : {Some("gpt-4o")}, messages : {<<m>> : m \in ShortInbound},
                 max_tokens : {None}, temperature : {None},
                 tools : {None, Some(<<FunctionTool>>)}]]
    \cup [fn : {"ensure_cache_control"},
          body : [tools : ToolsValues, system : SystemValues, messages : {Absent}]]
    \cup ThinkingCalls

\* what a call returns when the clock reads now
Returned(c, now) ==
    CASE c.fn = "messages_to_openai" -> messages_to_openai(c.system, c.messages)
      [] c.fn = "response_to_anthropic" -> response_to_anthropic(c.resp)
      [] c.fn = "anthropic_response_to_openai" ->
             anthropic_response_to_openai(c.resp, now, c.overflow_checks)
      [] c.fn = "inbound_request_to_anthropic" -> inbound_request_to_anthropic(c.req)
      [] c.fn = "ensure_cache_control" -> ensure_cache_control(c.body)
      [] c.fn = "build_thinking_params" -> build_thinking_params(c.config)
      [] c.fn = "parse_model_suffix" -> parse_model_suffix(c.model)
      [] c.fn = "build_thinking_for_model" -> build_thinking_for_model(c.model, c.effort)

InitPure ==
    /\ call \in PureCalls
    /\ clock \in Clock
    /\ ret = Pending
    /\ again = Pending
    /\ orig = EmptyBody
    /\ prev = EmptyBody
    /\ body = EmptyBody
    /\ calls = 0
    /\ pc = "idle"
    /\ requests = 0
    /\ http = None

\* the system clock moves, or is set, between two calls
Tick ==
    /\ clock' \in Clock \ {clock}
    /\ UNCHANGED <<call, ret, again, orig, prev, body, calls, pc, requests, http>>

FirstCall ==
    /\ ret = Pending
    /\ ret' = [v |-> Returned(call, clock)]
    /\ UNCHANGED <<call, clock, again, orig, prev, body, calls, pc, requests, http>>

SecondCall ==
    /\ ret # Pending
    /\ again = Pending
    /\ again' = [v |-> Returned(call, clock)]
    /\ UNCHANGED <<call, clock, ret, orig, prev, body, calls, pc, requests, http>>

NextPure == Tick \/ FirstCall \/ SecondCall

SpecPure == InitPure /\ [][NextPure]_vars

\* C26: two calls of a conversion function with equal inputs return equal
\* outputs, whenever they are made.
C26_EqualOutputs ==
    (ret # Pending /\ again # Pending) => again = ret

\* the two results differ in nothing but the created field of
\* anthropic_response_to_openai
C26_OnlyCreated ==
    (ret # Pending /\ again # Pending /\ again # ret) =>
        /\ call.fn = "anthropic_response_to_openai"
        /\ [again.v EXCEPT !.created = ret.v.created] = ret.v

\* ---------------------------------------------------------------------------
\* client/chat.rs: one call of LlmClient::chat
\* ---------------------------------------------------------------------------

Providers == {"Anthropic", "OpenAiCompatible"}

ChatCalls ==
    [fn : {"chat"}, provider : Providers, system : {None, Some(<<"s">>)},
     messages : {<<m>> : m \in ShortMessages},
     thinking : {None, Adaptive("Medium")}]

\* StatusCode::is_success
is_success(status) == status \in 200..299

Statuses == {200, 204, 301, 400, 429, 500}

\* what response.json() gives: an error, or a value of the type the path reads
JsonBodies(provider) ==
    {Err}
    \cup (IF provider = "Anthropic"
          THEN {OkOf(m) : m \in
                   [id : {Some("msg_1")}, model : {Some("claude-sonnet-4-5")},
                    content : {<<>>, <<Text(<<"a">>)>>,
                               <<ToolUse("call_1", "get_weather", EmptyObject)>>},
                    stop_reason : {EndTurn, StopToolUse}, usage : {None}]}
          ELSE {OkOf(r) : r \in
                   [id : {Some("chatcmpl-1")}, object : {None}, created : {None},
                    model : {Some("gpt-4o")},
                    choices : {<<>>} \cup {<<c>> : c \in {x \in Choices :
                                                            x.message.tool_calls = None}},
                    usage : {None}]})

\* an HTTP response: its status, and its body as response.text() and as
\* response.json() read it
Responses(provider) ==
    [status : Statuses, text : {Err, OkOf(<<"e">>)}, json : {Err}]
    \cup [status : Statuses, text : {OkOf(<<"{">>)},
          json : JsonBodies(provider) \ {Err}]

LlmError(error) == [ok |-> FALSE, error |-> error]

InitChat ==
    /\ call \in ChatCalls
    /\ pc = "chat"
    /\ requests = 0
    /\ http = None
    /\ ret = Pending
    /\ again = Pending
    /\ clock = OkOf(0)
    /\ orig = EmptyBody
    /\ prev = EmptyBody
    /\ body = EmptyBody
    /\ calls = 0

\* chat: the match on self.config.provider
Chat ==
    /\ pc = "chat"
    /\ pc' = IF call.provider = "Anthropic" THEN "chat_anthropic" ELSE "chat_openai_compat"
    /\ UNCHANGED <<call, ret, requests, http, again, clock, orig, prev, body, calls>>

\* the request body is built and the POST is sent
Send ==
    /\ pc \in {"chat_anthropic", "chat_openai_compat"}
    /\ requests' = requests + 1
    /\ http' = [tag |-> "Sent",
                request |->
                    IF pc = "chat_anthropic"
                    THEN [url |-> "/v1/messages",
                          system |-> call.system,
                          messages |-> call.messages,
                          thinking |-> build_thinking_params(call.thinking).thinking,
                          output_config |->
                              build_thinking_params(call.thinking).output_config]
                    ELSE [url |-> "/v1/chat/completions",
                          messages |-> messages_to_openai(call.system, call.messages),
                          temperature |-> None,
                          tools |-> None]]
    /\ pc' = "send"
    /\ UNCHANGED <<call, ret, again, clock, orig, prev, body, calls>>

\* send().await?: a transport failure ends the call, a response is kept
Receive ==
    /\ pc = "send"
    /\ \/ /\ ret' = LlmError([kind |-> "Request"])
          /\ pc' = "done"
          /\ http' = http
       \/ /\ \E r \in Responses(call.provider) :
                 http' = [tag |-> "Received", request |-> http.request,
                          status |-> r.status, text |-> r.text, json |-> r.json]
          /\ pc' = "status"
          /\ ret' = ret
    /\ UNCHANGED <<call, requests, again, clock, orig, prev, body, calls>>

\* a status that is not a success sends the request once more
CheckStatus_retry ==
    /\ pc = "status"
    /\ IF ~is_success(http.status) /\ requests < 2
       THEN /\ pc' = IF call.provider = "Anthropic"
                     THEN "chat_anthropic" ELSE "chat_openai_compat"
            /\ ret' = ret
       ELSE /\ pc' = "json"
            /\ ret' = ret
    /\ UNCHANGED <<call, requests, http, again, clock, orig, prev, body, calls>>

\* if !status.is_success() { return Err(LlmError::ApiError { .. }) }
CheckStatus ==
    /\ pc = "status"
    /\ IF ~is_success(http.status)
       THEN /\ ret' = LlmError([kind |-> "ApiError", status |-> http.status,
                                body |-> unwrap_or_default(http.text)])
            /\ pc' = "done"
       ELSE /\ pc' = "json"
            /\ ret' = ret
    /\ UNCHANGED <<call, requests, http, again, clock, orig, prev, body, calls>>

\* response.json().await.map_err(ParseResponse)?; chat_anthropic returns the
\* parsed response
ParseBody ==
    /\ pc = "json"
    /\ IF ~http.json.ok
       THEN /\ ret' = LlmError([kind |-> "ParseResponse"])
            /\ pc' = "done"
       ELSE IF call.provider = "Anthropic"
       THEN /\ ret' = OkOf(http.json.v)
            /\ pc' = "done"
       ELSE /\ pc' = "response_to_anthropic"
            /\ ret' = ret
    /\ UNCHANGED <<call, requests, http, again, clock, orig, prev, body, calls>>

\* to_openai::response_to_anthropic(openai_resp).map_err(Conversion)?
Convert ==
    /\ pc = "response_to_anthropic"
    /\ LET resp == response_to_anthropic(http.json.v)
       IN ret' = IF resp.ok THEN OkOf(resp.v)
                 ELSE LlmError([kind |-> "Conversion", msg |-> resp.msg])
    /\ pc' = "done"
    /\ UNCHANGED <<call, requests, http, again, clock, orig, prev, body, calls>>

NextChat == Chat \/ Send \/ Receive \/ CheckStatus \/ ParseBody \/ Convert

SpecChat == InitChat /\ [][NextChat]_vars

\* a MessagesResponse
Structured(v) == DOMAIN v = {"id", "model", "content", "stop_reason", "usage"}

\* how a call stands: the conversion is reached only with a success status
\* and a parsed body, and a call that is over returned the structured
\* response after both, or the error of the one thing that failed
Outcome ==
    /\ pc = "response_to_anthropic" =>
          /\ call.provider = "OpenAiCompatible"
          /\ http.tag = "Received"
          /\ is_success(http.status)
          /\ http.json.ok
    /\ pc = "done" =>
          /\ ret # Pending
          /\ ret.ok =>
                /\ http.tag = "Received" /\ is_success(http.status) /\ http.json.ok
                /\ Structured(ret.v)
          /\ ~ret.ok =>
                CASE http.tag = "Sent" -> ret.error = [kind |-> "Request"]
                  [] http.tag = "Received" /\ ~is_success(http.status) ->
                         /\ ret.error.kind = "ApiError"
                         /\ ret.error.status = http.status
                  [] http.tag = "Received" /\ is_success(http.status) /\ ~http.json.ok ->
                         ret.error = [kind |-> "ParseResponse"]
                  [] OTHER ->
                         /\ ret.error.kind = "Conversion"
                         /\ call.provider = "OpenAiCompatible"

\* C27: one call of chat sends at most one HTTP request; a transport failure,
\* a status that is not a success, a body that does not parse and a failed
\* conversion each end the call with that error, and a call that is over
\* takes no further step; response_to_anthropic runs only after a success
\* status and a parsed body, and a successful call returns the structured
\* response.
C27_OneRequest ==
    [][/\ pc # "done"
       /\ requests' \in {requests, requests + 1}
       /\ requests' <= 1
       /\ Outcome']_vars

\* a call on the OpenAI-compatible path that sent one request and came back
\* with the converted response
C27_Witness ==
    /\ pc = "done"
    /\ requests = 1
    /\ call.provider = "OpenAiCompatible"
    /\ ret.ok
    /\ ret.v.content # <<>>

====
